---- MODULE Spec2Model ----
(***************************************************************************)
(* invoicepilot: OAuth2 token lifecycle (auth/oauth.rs, auth/gmail_auth.rs, *)
(* auth/drive_auth.rs), the loopback authorization-code flow, the job      *)
(* pipeline of process/jobs.rs, the date ranges of scheduler/runner.rs and *)
(* the dashboard of interfaces/tui.rs.                                     *)
(*                                                                         *)
(* Granularity: one action per stretch of code between two suspension      *)
(* points (network awaits and the blocking accept on the loopback          *)
(* listener).  Reads and writes of the token files and local socket I/O    *)
(* are taken to succeed; every provider request may succeed or fail, and   *)
(* so may the writes and removals of temp files in SpecDeliver.            *)
(***************************************************************************)
EXTENDS Integers, Sequences, FiniteSets, TLC

(***************************************************************************)
(* Bounds of the model.                                                    *)
(***************************************************************************)
NumTasks == 2
MaxNow == 600
ExpiresInSecs == 600
NumAccessTokens == 2
NumRefreshTokens == 2
MaxProbe == 20
NumKeywords == 2
NumMessages == 2
MaxParts == 1
NumBanks == 1
NumBaseSegments == 1
MaxNodes == 3
NumAttachmentIds == 2
MaxPathLen == 3
MaxFiles == 2
NumYears == 2
MaxRangeParts == 3
NumJobs == 1
NumAuths == 1
MaxLog == 6

(***************************************************************************)
(* Program constants.                                                      *)
(***************************************************************************)
ExpiryMargin == 300

Services == {"gmail", "drive"}
Tasks == 1..NumTasks
NoTask == 0

(***************************************************************************)
(* Option<T>                                                               *)
(***************************************************************************)
None == [some |-> FALSE, v |-> 0]
Some(x) == [some |-> TRUE, v |-> x]

AccessTokens == 1..NumAccessTokens
RefreshTokens == 1..NumRefreshTokens
OptRefresh == {None} \cup {Some(r) : r \in RefreshTokens}
OptExpiresIn == {None, Some(ExpiresInSecs)}

(***************************************************************************)
(* Content of a token cache file: missing, not parseable as a TokenCache,  *)
(* or a serialized TokenCache.                                             *)
(***************************************************************************)
Absent == [kind |-> "absent", access_token |-> 0, refresh_token |-> None, expires_at |-> None]
Garbage == [kind |-> "garbage", access_token |-> 0, refresh_token |-> None, expires_at |-> None]
TokenCache(at, rt, ex) == [kind |-> "token", access_token |-> at, refresh_token |-> rt, expires_at |-> ex]

\* TokenCache::is_expired, evaluated at time t
is_expired_nomargin(tc, t) ==
    IF tc.expires_at.some THEN t >= tc.expires_at.v ELSE FALSE

is_expired_flipped(tc, t) ==
    IF tc.expires_at.some THEN t <= (tc.expires_at.v - ExpiryMargin) ELSE FALSE

is_expired_strict(tc, t) ==
    IF tc.expires_at.some THEN t > (tc.expires_at.v - ExpiryMargin) ELSE FALSE

is_expired(tc, t) ==
    IF tc.expires_at.some THEN t >= (tc.expires_at.v - ExpiryMargin) ELSE FALSE

\* the token responses the provider can send
TokenResponses ==
    [access_token : AccessTokens, refresh_token : OptRefresh, expires_in : OptExpiresIn]

NoAnswer == [access_token |-> 0, refresh_token |-> None, expires_in |-> None]

\* expires_in().map(|d| now + d)
expires_at_of(resp, t) ==
    IF resp.expires_in.some THEN Some(t + resp.expires_in.v) ELSE None

\* the CSRF token of an attempt: random, hence distinct for distinct attempts
csrf_token(t) == t

\* request lines the loopback listener can receive on its one connection:
\* a line without a request target carries no query at all
RedirectRequests ==
    {r \in [target : BOOLEAN, code : {None, Some(1)},
            state : {None} \cup {Some(x) : x \in Tasks \cup {NoTask}}] :
        r.target \/ (r.code = None /\ r.state = None)}

NoRequest == [target |-> FALSE, code |-> None, state |-> None]

ErrBind == "Failed to bind to port 8080. Is another instance running?"
ErrRequest == "Invalid HTTP request"
ErrNoCode == "Authorization code not found in callback"
ErrNoState == "State not found in callback"
ErrCsrf == "CSRF token mismatch"
ErrExchange == "Failed to exchange authorization code for token"
NoError == ""

VARIABLES
    file,       \* file[s]: content of the token cache file of service s
    now,        \* chrono::Utc::now().timestamp()
    listeners,  \* the tasks holding a listener bound to 127.0.0.1:8080
    cleared,    \* cleared[s]: the file of s was reset and not written since
    pc,         \* pc[t]: where task t is suspended
    svc,        \* svc[t]: the service task t is getting a token for
    refresh,    \* refresh[t]: the local `refresh` held across the refresh await
    result,     \* result[t]: what get_<service>_token returned
    hist,       \* hist[t]: what the current call of task t has seen and done
    probe,      \* inputs and output of one is_expired evaluation
    search,     \* one call of search_invoices: its locals and the answers it got
    walk,       \* input and output of one find_attachments evaluation
    detect,     \* input and output of one detect_bank_name evaluation
    drive,      \* the folders and files the Drive account holds
    resolve,    \* one call of find_or_create_folder: its locals and its requests
    batch,      \* one call of upload_files: its locals and its requests
    deliver,    \* the delivery of one harvest: jobs.rs from the period folder on
    calc,       \* input and output of one evaluation of a date function
    tui,        \* the App, the event queue and the background tasks of run_app
    job         \* the locals and the position of one run_manual_processing

authVars == <<file, now, listeners, cleared, pc, svc, refresh, result, hist>>
callVars == <<probe, search, walk, detect, drive, resolve, batch>>
unitVars == <<callVars, deliver, calc, tui>>
vars == <<file, now, listeners, cleared, pc, svc, refresh, result, hist, unitVars, job>>

NoResult == [status |-> "none", token |-> 0, err |-> NoError, path |-> "none"]
Ok(tok, path) == [status |-> "ok", token |-> tok, err |-> NoError, path |-> path]
Err(e) == [status |-> "err", token |-> 0, err |-> e, path |-> "none"]

\* observations of one call: the cache file and the time it was loaded at,
\* the requests it issued, the answers it got
NoHist ==
    [loaded |-> Absent, loadedAt |-> 0, afterReset |-> FALSE,
     refreshes |-> 0, refreshFailed |-> FALSE, answer |-> NoAnswer,
     binds |-> 0, blockedBy |-> NoTask, accepts |-> 0, req |-> NoRequest,
     exchanges |-> 0, writes |-> 0]

\* run_manual_processing before it is called
NoJob ==
    [pc |-> "idle", status |-> "none", gmail |-> "none", drive |-> "none",
     started |-> << >>, finished |-> {}, kw |-> 0, ids |-> {}, todo |-> {},
     cur |-> 0, parts |-> 0, bank |-> None, attachments |-> << >>,
     resolving |-> "none", seg |-> 0, groups |-> {}, group |-> None,
     files |-> << >>, temp |-> {},
     total_uploaded |-> 0, total_failed |-> 0, banks_processed |-> << >>,
     downloads |-> << >>, tx |-> << >>]

NoProbe == [expires_at |-> None, now |-> 0, out |-> FALSE, done |-> FALSE]

\* search_invoices before it is called
NoSearch ==
    [pc |-> "idle", status |-> "none", keywords |-> << >>, kw |-> 0,
     queries |-> << >>, answers |-> << >>, all_message_ids |-> {},
     final_results |-> << >>]

\* find_attachments and detect_bank_name before they are evaluated
NoWalk == [done |-> FALSE, part |-> << >>, attachments |-> << >>]
NoDetect == [done |-> FALSE, headers |-> << >>, body |-> None, out |-> None]

\* an account without folders and files; no call of find_or_create_folder
\* and of upload_files
NoDrive == [folders |-> {}, files |-> {}]
NoResolve ==
    [pc |-> "idle", status |-> "none", path |-> << >>, parts |-> << >>, i |-> 0,
     parent_id |-> << >>, requests |-> << >>, before |-> {}, peer |-> << >>]
\* the delivery of a harvest before it starts; tmp is the temp directory,
\* data tells whose bytes each temp file holds, before are the names the
\* destination folders held before the run
NoDeliver ==
    [pc |-> "idle", status |-> "none", attachments |-> << >>, bank_groups |-> << >>,
     groups |-> {}, group |-> None, folder |-> << >>, file_paths |-> << >>, i |-> 0,
     tmp |-> {}, written |-> {}, uploads |-> << >>,
     total_uploaded |-> 0, total_failed |-> 0, banks_processed |-> << >>,
     tx |-> << >>, data |-> {}, before |-> {}]

\* a date function before it is evaluated
NoCalc == [f |-> "none", in |-> << >>, out |-> << >>]

\* App::new
NewApp ==
    [focused_panel |-> "Manual", popup_state |-> "None",
     start_date_input |-> << >>, end_date_input |-> << >>,
     date_input_focus |-> TRUE, is_processing |-> FALSE,
     progress_messages |-> << >>, total_processed |-> 0,
     total_uploaded |-> 0, total_failed |-> 0, bank_breakdown |-> << >>,
     error_message |-> None,
     gmail_auth_status |-> "NotAuthenticated",
     drive_auth_status |-> "NotAuthenticated",
     auth_popup_success |-> FALSE, auth_url |-> None,
     billing_month |-> None, drive_folder |-> None]

\* the dashboard before run_app: the channel of run_app is `rx`, `tasks` are
\* the spawned jobs; `sent` and `received` count the messages of the
\* channel
NoTui ==
    [pc |-> "idle", app |-> NewApp, rx |-> << >>, tasks |-> << >>,
     sent |-> 0, received |-> 0]

NoBatch ==
    [pc |-> "idle", status |-> "none", file_paths |-> << >>, i |-> 0,
     requests |-> << >>, outcomes |-> << >>, tx |-> << >>, summary |-> << >>]

Init ==
    /\ file \in [Services -> {Absent, Garbage}]
    /\ now = 0
    /\ listeners = {}
    /\ cleared = [s \in Services |-> FALSE]
    /\ pc = [t \in Tasks |-> "idle"]
    /\ svc = [t \in Tasks |-> "gmail"]
    /\ refresh = [t \in Tasks |-> 0]
    /\ result = [t \in Tasks |-> NoResult]
    /\ hist = [t \in Tasks |-> NoHist]
    /\ probe = NoProbe
    /\ search = NoSearch
    /\ walk = NoWalk
    /\ detect = NoDetect
    /\ drive = NoDrive
    /\ resolve = NoResolve
    /\ batch = NoBatch
    /\ deliver = NoDeliver
    /\ calc = NoCalc
    /\ tui = NoTui
    /\ job = NoJob

(***************************************************************************)
(* Returning from get_<service>_token.                                     *)
(***************************************************************************)
Finish(t, res) ==
    /\ pc' = [pc EXCEPT ![t] = "done"]
    /\ result' = [result EXCEPT ![t] = res]

\* save_token: fs::write of the serialized cache
save_token_lost(f, s, tc) == f

save_token(f, s, tc) == [f EXCEPT ![s] = tc]

\* TcpListener::bind("127.0.0.1:8080"): fails while the address is in use
bind_shared(held) == TRUE

bind(held) == held = {}

(***************************************************************************)
(* authorize_<service> up to the accept: perform_oauth_flow builds the URL *)
(* and binds the listener.  h is the history of the call so far.           *)
(***************************************************************************)
BeginFlow(t, h) ==
    IF bind(listeners)
    THEN /\ listeners' = listeners \cup {t}
         /\ pc' = [pc EXCEPT ![t] = "accepting"]
         /\ result' = [result EXCEPT ![t] = NoResult]
         /\ hist' = [hist EXCEPT ![t] = [h EXCEPT !.binds = @ + 1]]
    ELSE /\ listeners' = listeners
         /\ Finish(t, Err(ErrBind))
         /\ hist' = [hist EXCEPT ![t] = [h EXCEPT !.binds = @ + 1,
                                                  !.blockedBy = CHOOSE o \in listeners : TRUE]]

(***************************************************************************)
(* get_<service>_token from its entry to its first suspension point, on    *)
(* the cache files f.                                                      *)
(***************************************************************************)
GetToken(t, s, f, wasCleared) ==
    LET token_cache == f[s]
        h0 == [NoHist EXCEPT !.loaded = token_cache, !.loadedAt = now,
                             !.afterReset = wasCleared]
    IN  /\ pc[t] \in {"idle", "done"}
        /\ svc' = [svc EXCEPT ![t] = s]
        /\ file' = f
        /\ IF token_cache.kind = "token" /\ ~is_expired(token_cache, now)
           THEN /\ Finish(t, Ok(token_cache.access_token, "cached"))
                /\ hist' = [hist EXCEPT ![t] = h0]
                /\ UNCHANGED <<listeners, refresh>>
           ELSE IF token_cache.kind = "token" /\ token_cache.refresh_token.some
           THEN /\ pc' = [pc EXCEPT ![t] = "refreshing"]
                /\ refresh' = [refresh EXCEPT ![t] = token_cache.refresh_token.v]
                /\ result' = [result EXCEPT ![t] = NoResult]
                /\ hist' = [hist EXCEPT ![t] = [h0 EXCEPT !.refreshes = @ + 1]]
                /\ UNCHANGED listeners
           ELSE /\ BeginFlow(t, h0)
                /\ UNCHANGED refresh

\* a caller (job or authorization task) calls get_<service>_token
StartGetToken(t, s) ==
    /\ GetToken(t, s, file, cleared[s])
    /\ UNCHANGED <<now, cleared, unitVars, job>>

\* clear_<service>_token
clear_token_kept(f, s) == f

clear_token(f, s) == [f EXCEPT ![s] = Absent]

\* handle_auth_command, AuthAction::Gmail / AuthAction::Drive
ReAuthenticate(t, s) ==
    /\ GetToken(t, s, clear_token(file, s), TRUE)
    /\ cleared' = [cleared EXCEPT ![s] = TRUE]
    /\ UNCHANGED <<now, unitVars, job>>

\* handle_auth_command, AuthAction::Reset, and the R key of the Auth panel
ResetTokens ==
    /\ \E s \in Services : file[s] # Absent \/ ~cleared[s]
    /\ file' = clear_token(clear_token(file, "gmail"), "drive")
    /\ cleared' = [s \in Services |-> TRUE]
    /\ UNCHANGED <<now, listeners, pc, svc, refresh, result, hist, unitVars, job>>

\* new_token.refresh_token().or(Some(refresh))
merged_refresh_token_dropped(answered, kept) == answered

merged_refresh_token(answered, kept) ==
    IF answered.some THEN answered ELSE Some(kept)

\* the answer to the refresh request arrives
RefreshResponse(t) ==
    /\ pc[t] = "refreshing"
    /\ \/ \E resp \in TokenResponses :
            LET token_cache ==
                    TokenCache(resp.access_token,
                               merged_refresh_token(resp.refresh_token, refresh[t]),
                               expires_at_of(resp, now))
            IN  /\ file' = save_token(file, svc[t], token_cache)
                /\ cleared' = [cleared EXCEPT ![svc[t]] = FALSE]
                /\ Finish(t, Ok(token_cache.access_token, "refreshed"))
                /\ hist' = [hist EXCEPT ![t].writes = @ + 1,
                                        ![t].answer = resp]
                /\ UNCHANGED listeners
       \/ /\ BeginFlow(t, [hist[t] EXCEPT !.refreshFailed = TRUE])
          /\ UNCHANGED <<file, cleared>>
    /\ UNCHANGED <<now, svc, refresh, unitVars, job>>

\* perform_oauth_flow from the request line to the CSRF check: the error the
\* request is rejected with, or NoError
redirect_error_unverified(req, t) ==
    IF ~req.target THEN ErrRequest
    ELSE IF ~req.code.some THEN ErrNoCode
    ELSE IF ~req.state.some THEN ErrNoState
    ELSE NoError

redirect_error_merged(req, t) ==
    IF ~req.target THEN ErrRequest
    ELSE IF ~req.code.some THEN ErrRequest
    ELSE IF ~req.state.some THEN ErrRequest
    ELSE IF req.state.v # csrf_token(t) THEN ErrCsrf
    ELSE NoError

redirect_error(req, t) ==
    IF ~req.target THEN ErrRequest
    ELSE IF ~req.code.some THEN ErrNoCode
    ELSE IF ~req.state.some THEN ErrNoState
    ELSE IF req.state.v # csrf_token(t) THEN ErrCsrf
    ELSE NoError

\* the listener accepts its connection and the request line is handled
AcceptRedirect(t) ==
    /\ pc[t] = "accepting"
    /\ \E req \in RedirectRequests :
         LET h == [hist[t] EXCEPT !.accepts = @ + 1, !.req = req]
             e == redirect_error(req, t)
         IN  IF e # NoError
             THEN /\ listeners' = listeners \ {t}
                  /\ Finish(t, Err(e))
                  /\ hist' = [hist EXCEPT ![t] = h]
             ELSE /\ pc' = [pc EXCEPT ![t] = "exchanging"]
                  /\ hist' = [hist EXCEPT ![t] = [h EXCEPT !.exchanges = @ + 1]]
                  /\ UNCHANGED <<listeners, result>>
    /\ UNCHANGED <<file, now, cleared, svc, refresh, unitVars, job>>

\* the answer to the code exchange arrives; authorize_<service> saves the token
ExchangeResponse(t) ==
    /\ pc[t] = "exchanging"
    /\ listeners' = listeners \ {t}
    /\ \/ \E resp \in TokenResponses :
            LET token_cache ==
                    TokenCache(resp.access_token, resp.refresh_token,
                               expires_at_of(resp, now))
            IN  /\ file' = save_token(file, svc[t], token_cache)
                /\ cleared' = [cleared EXCEPT ![svc[t]] = FALSE]
                /\ Finish(t, Ok(token_cache.access_token, "authorized"))
                /\ hist' = [hist EXCEPT ![t].writes = @ + 1,
                                        ![t].answer = resp]
       \/ /\ Finish(t, Err(ErrExchange))
          /\ UNCHANGED <<file, cleared, hist>>
    /\ UNCHANGED <<now, svc, refresh, unitVars, job>>

\* the cache file of a service is damaged outside the program
CorruptFile(s) ==
    /\ file[s].kind = "token"
    /\ file' = [file EXCEPT ![s] = Garbage]
    /\ UNCHANGED <<now, listeners, cleared, pc, svc, refresh, result, hist, unitVars, job>>

\* time passes
Tick ==
    /\ now + ExpiryMargin <= MaxNow
    /\ now' = now + ExpiryMargin
    /\ UNCHANGED <<file, listeners, cleared, pc, svc, refresh, result, hist, unitVars, job>>

(***************************************************************************)
(* Spec: one caller at a time (the CLI, or one job), with resets, damage   *)
(* to the cache files and the passing of time in between.                  *)
(***************************************************************************)
Caller == 1

Next ==
    \/ \E s \in Services : StartGetToken(Caller, s)
    \/ \E s \in Services : ReAuthenticate(Caller, s)
    \/ ResetTokens
    \/ RefreshResponse(Caller)
    \/ AcceptRedirect(Caller)
    \/ ExchangeResponse(Caller)
    \/ \E s \in Services : CorruptFile(s)
    \/ Tick

Spec == Init /\ [][Next]_vars

(***************************************************************************)
(* SpecPort: the tasks spawned by the TUI (start_gmail_auth,               *)
(* start_drive_auth, start_manual_processing), each calling                *)
(* get_<service>_token once, interleaved at their suspension points.       *)
(***************************************************************************)
SpawnGetToken(t, s) ==
    /\ pc[t] = "idle"
    /\ StartGetToken(t, s)

NextPort ==
    \/ \E t \in Tasks, s \in Services : SpawnGetToken(t, s)
    \/ \E t \in Tasks : AcceptRedirect(t)
    \/ \E t \in Tasks : ExchangeResponse(t)

SpecPort == Init /\ [][NextPort]_vars

(***************************************************************************)
(* SpecExpiry: is_expired on every token and time of a bounded range.      *)
(***************************************************************************)
ProbeTimes == 0..MaxProbe
ProbeExpiries == {None} \cup {Some(e) : e \in 0..(ExpiryMargin + MaxProbe + MaxProbe)}

InitExpiry ==
    /\ Init
    /\ file = [s \in Services |-> Absent]

Evaluate ==
    /\ ~probe.done
    /\ \E e \in ProbeExpiries, t \in ProbeTimes :
         probe' = [expires_at |-> e, now |-> t,
                   out |-> is_expired(TokenCache(1, None, e), t), done |-> TRUE]
    /\ UNCHANGED <<authVars, job, search, walk, detect, drive, resolve, batch, deliver, calc, tui>>

Forget ==
    /\ probe.done
    /\ probe' = NoProbe
    /\ UNCHANGED <<authVars, job, search, walk, detect, drive, resolve, batch, deliver, calc, tui>>

NextExpiry == Evaluate \/ Forget

SpecExpiry == InitExpiry /\ [][NextExpiry]_vars


(***************************************************************************)
(* SpecJob: one run of run_manual_processing, from the cache files a       *)
(* previous run can have left.                                             *)
(***************************************************************************)
StageOrder ==
    <<"gmail_auth", "drive_auth", "search", "harvest", "period_folder",
      "upload", "cleanup", "summary">>

MessageIds == 1..NumMessages
Keywords == 1..NumKeywords
Banks == 1..NumBanks
OptBank == {None} \cup {Some(b) : b \in Banks}

(***************************************************************************)
(* SpecSearch: search_invoices, one query per keyword.                     *)
(***************************************************************************)
Range(s) == {s[i] : i \in 1..Len(s)}

\* the orders a HashSet can be iterated in
Enumerations(S) == {f \in [1..Cardinality(S) -> S] : Range(f) = S}

\* search_with_query: Ok with the ids of the answer, or Err
SearchAnswers ==
    {[ok |-> TRUE, ids |-> ids] : ids \in UNION {Enumerations(T) : T \in SUBSET MessageIds}}
        \cup {[ok |-> FALSE, ids |-> << >>]}

\* TARGET_KEYWORDS_TO_FETCH_AND_DOWNLOAD as Config::validate accepts it
KeywordLists == UNION {[1..n -> Keywords] : n \in 1..NumKeywords}

insert_ids_last(all, answer) ==
    IF answer.ok THEN Range(answer.ids) ELSE all

\* Ok(message_ids) => insert each id; Err(_e) => skip
insert_ids(all, answer) ==
    IF answer.ok THEN all \cup Range(answer.ids) ELSE all

\* search_invoices is called: the query of the first keyword is sent
SearchCall ==
    /\ search.pc = "idle"
    /\ \E ks \in KeywordLists :
         search' = [NoSearch EXCEPT !.pc = "query", !.keywords = ks, !.kw = 1,
                                    !.queries = <<ks[1]>>]
    /\ UNCHANGED <<authVars, job, probe, walk, detect, drive, resolve, batch, deliver, calc, tui>>

\* the answer to the query of one keyword: the next query, or the result
SearchAnswer ==
    /\ search.pc = "query"
    /\ \E a \in SearchAnswers :
         LET s == [search EXCEPT !.answers = Append(@, a),
                                 !.all_message_ids = insert_ids(@, a)]
         IN  IF s.kw < Len(s.keywords)
             THEN search' = [s EXCEPT !.kw = @ + 1,
                                      !.queries = Append(@, s.keywords[s.kw + 1])]
             ELSE \E r \in Enumerations(s.all_message_ids) :
                    search' = [s EXCEPT !.pc = "done", !.status = "ok",
                                        !.final_results = r]
    /\ UNCHANGED <<authVars, job, probe, walk, detect, drive, resolve, batch, deliver, calc, tui>>

SearchForget ==
    /\ search.pc = "done"
    /\ search' = NoSearch
    /\ UNCHANGED <<authVars, job, probe, walk, detect, drive, resolve, batch, deliver, calc, tui>>

NextSearch == SearchCall \/ SearchAnswer \/ SearchForget

SpecSearch == Init /\ [][NextSearch]_vars

(***************************************************************************)
(* SpecWalk: find_attachments on every message tree of a bounded size.     *)
(***************************************************************************)
\* MessagePart: filename, body and child parts (no parts and an empty list
\* of parts are walked alike)
MessagePart(filename, body, parts) ==
    [filename |-> filename, body |-> body, parts |-> parts]

MessagePartBody(attachment_id) == [attachment_id |-> attachment_id]

\* the filename and body a part can have: [0] no filename, [1] an empty
\* filename, [2] no body, [3] a body without attachment id, [4] an attachment
PartHeads ==
    {[filename |-> None, body |-> Some(MessagePartBody(Some(1)))],
     [filename |-> Some(""), body |-> Some(MessagePartBody(Some(1)))],
     [filename |-> Some("a.pdf"), body |-> None],
     [filename |-> Some("a.pdf"), body |-> Some(MessagePartBody(None))]}
        \cup {[filename |-> Some("a.pdf"), body |-> Some(MessagePartBody(Some(id)))] :
                 id \in 1..NumAttachmentIds}

RECURSIVE Trees(_), Forests(_)
\* the message trees of n parts
Trees(n) ==
    {MessagePart(h.filename, h.body, f) : h \in PartHeads, f \in Forests(n - 1)}

\* the lists of trees of n parts in all
Forests(n) ==
    IF n = 0 THEN {<< >>}
    ELSE UNION {{<<t>> \o f : t \in Trees(k), f \in Forests(n - k)} : k \in 1..n}

is_attachment_any_name(part) ==
    /\ part.filename.some
    /\ part.body.some
    /\ part.body.v.attachment_id.some

\* if let Some(filename), !filename.is_empty(), if let Some(body),
\* if let Some(attachment_id)
is_attachment(part) ==
    /\ part.filename.some
    /\ part.filename.v # ""
    /\ part.body.some
    /\ part.body.v.attachment_id.some

RECURSIVE find_attachments(_, _), find_in_parts(_, _, _)
\* the part itself, then its child parts
find_attachments(part, attachments) ==
    find_in_parts(part.parts, 1,
                  IF is_attachment(part)
                  THEN Append(attachments,
                              [filename |-> part.filename.v,
                               attachment_id |-> part.body.v.attachment_id.v])
                  ELSE attachments)

\* for child_part in parts, from the i-th on
find_in_parts(parts, i, attachments) ==
    IF i > Len(parts) THEN attachments
    ELSE find_in_parts(parts, i + 1, find_attachments(parts[i], attachments))

WalkEvaluate ==
    /\ ~walk.done
    /\ \E n \in 1..MaxNodes : \E part \in Trees(n) :
         walk' = [done |-> TRUE, part |-> part,
                  attachments |-> find_attachments(part, << >>)]
    /\ UNCHANGED <<authVars, job, probe, search, detect, drive, resolve, batch, deliver, calc, tui>>

WalkForget ==
    /\ walk.done
    /\ walk' = NoWalk
    /\ UNCHANGED <<authVars, job, probe, search, detect, drive, resolve, batch, deliver, calc, tui>>

NextWalk == WalkEvaluate \/ WalkForget

SpecWalk == Init /\ [][NextWalk]_vars

(***************************************************************************)
(* SpecDetect: detect_bank_name on messages of a small vocabulary.  A      *)
(* string is the list of its characters.                                   *)
(***************************************************************************)
LowerCase ==
    <<"a", "b", "c", "d", "e", "f", "g", "h", "i", "j", "k", "l", "m", "n", "o", "p", "q", "r", "s", "t", "u", "v", "w", "x", "y", "z">>

UpperCase ==
    <<"A", "B", "C", "D", "E", "F", "G", "H", "I", "J", "K", "L", "M", "N", "O", "P", "Q", "R", "S", "T", "U", "V", "W", "X", "Y", "Z">>

\* char::to_lowercase, char::to_uppercase on the characters above
char_to_lowercase(c) ==
    IF \E i \in 1..26 : UpperCase[i] = c
    THEN LowerCase[CHOOSE i \in 1..26 : UpperCase[i] = c]
    ELSE c

char_to_uppercase(c) ==
    IF \E i \in 1..26 : LowerCase[i] = c
    THEN UpperCase[CHOOSE i \in 1..26 : LowerCase[i] = c]
    ELSE c

to_lowercase(str) == [i \in 1..Len(str) |-> char_to_lowercase(str[i])]

\* str::contains
contains(str, pattern) ==
    \E i \in 0..(Len(str) - Len(pattern)) :
        SubSeq(str, i + 1, i + Len(pattern)) = pattern

\* entries of bank_patterns, in the order of the list: "wise" (the first),
\* "revolut", "transferwise", "ing", "deutsche bank" and "bank"
bank_patterns ==
    <<<<"w", "i", "s", "e">>,
    <<"r", "e", "v", "o", "l", "u", "t">>,
    <<"t", "r", "a", "n", "s", "f", "e", "r", "w", "i", "s", "e">>,
    <<"i", "n", "g">>,
    <<"d", "e", "u", "t", "s", "c", "h", "e", " ", "b", "a", "n", "k">>,
    <<"b", "a", "n", "k">>>>

\* values of the From and Subject headers and of the body data
HeaderValues ==
    {<<"W", "i", "s", "e">>,
     <<"R", "E", "V", "O", "L", "U", "T">>,
     <<"T", "r", "a", "n", "s", "f", "e", "r", "W", "i", "s", "e">>,
     <<"b", "i", "l", "l", "i", "n", "g">>,
     <<"d", "e", "u", "t", "s", "c", "h", "e">>,
     <<"B", "a", "n", "k">>,
     <<"n", "o", " ", "m", "a", "t", "c", "h", " ", "h", "e", "r", "e">>}

From == <<"F", "r", "o", "m">>
Subject == <<"S", "U", "B", "J", "E", "C", "T">>

MessageHeader(name, value) == [name |-> name, value |-> value]

\* the From and Subject headers a message can have
HeaderLists ==
    {<< >>}
        \cup {<<MessageHeader(From, v)>> : v \in HeaderValues}
        \cup {<<MessageHeader(Subject, v)>> : v \in HeaderValues}
        \cup {<<MessageHeader(From, v), MessageHeader(Subject, w)>> :
                 v \in HeaderValues, w \in HeaderValues}

RECURSIVE push_headers(_, _, _)
\* for header in headers: push_str(&header.value), push(' ')
push_headers(headers, i, text) ==
    IF i > Len(headers) THEN text
    ELSE push_headers(headers, i + 1,
                      IF to_lowercase(headers[i].name) \in {to_lowercase(From), to_lowercase(Subject)}
                      THEN text \o headers[i].value \o <<" ">>
                      ELSE text)

extract_search_text(headers, body) ==
    to_lowercase(push_headers(headers, 1, << >>) \o (IF body.some THEN body.v ELSE << >>))

RECURSIVE first_pattern(_, _)
\* for pattern in bank_patterns, from the i-th on
first_pattern(text, i) ==
    IF i > Len(bank_patterns) THEN None
    ELSE IF contains(text, to_lowercase(bank_patterns[i])) THEN Some(bank_patterns[i])
    ELSE first_pattern(text, i + 1)

detect_bank_from_text_longest(text) ==
    LET hits == {i \in 1..Len(bank_patterns) : contains(text, bank_patterns[i])}
    IN  IF hits = {} THEN None
        ELSE Some(bank_patterns[CHOOSE i \in hits :
                      \A k \in hits : Len(bank_patterns[k]) <= Len(bank_patterns[i])])

detect_bank_from_text(text) == first_pattern(text, 1)

RECURSIVE split_whitespace(_, _, _)
\* the words of str from the i-th character on, word being the word read
split_whitespace(str, i, word) ==
    IF i > Len(str) THEN (IF word = << >> THEN << >> ELSE <<word>>)
    ELSE IF str[i] = " "
    THEN (IF word = << >> THEN << >> ELSE <<word>>) \o split_whitespace(str, i + 1, << >>)
    ELSE split_whitespace(str, i + 1, Append(word, str[i]))

\* first character to_uppercase, word[1..] to_lowercase
capitalize(word) == <<char_to_uppercase(Head(word))>> \o to_lowercase(Tail(word))

RECURSIVE join(_, _)
join(words, i) ==
    IF i > Len(words) THEN << >>
    ELSE IF i = Len(words) THEN words[i]
    ELSE words[i] \o <<" ">> \o join(words, i + 1)

title_case(name) ==
    LET words == split_whitespace(name, 1, << >>)
    IN  join([i \in 1..Len(words) |-> capitalize(words[i])], 1)

detect_bank_name(headers, body) ==
    LET name == detect_bank_from_text(extract_search_text(headers, body))
    IN  IF name.some THEN Some(title_case(name.v)) ELSE None

DetectEvaluate ==
    /\ ~detect.done
    /\ \E headers \in HeaderLists, body \in {None} \cup {Some(v) : v \in HeaderValues} :
         detect' = [done |-> TRUE, headers |-> headers, body |-> body,
                    out |-> detect_bank_name(headers, body)]
    /\ UNCHANGED <<authVars, job, probe, search, walk, drive, resolve, batch, deliver, calc, tui>>

DetectForget ==
    /\ detect.done
    /\ detect' = NoDetect
    /\ UNCHANGED <<authVars, job, probe, search, walk, drive, resolve, batch, deliver, calc, tui>>

NextDetect == DetectEvaluate \/ DetectForget

SpecDetect == Init /\ [][NextDetect]_vars

(***************************************************************************)
(* SpecFolder: find_or_create_folder against the folders of the account.   *)
(* A path is the list of the pieces between its '/'; the id of a folder is *)
(* the list of the names that lead to it, the id of the root is << >>.     *)
(***************************************************************************)
Segments == {"a", "b"}
Root == << >>

FolderPaths == UNION {[1..n -> Segments \cup {""}] : n \in 1..MaxPathLen}

\* folder_path.split('/').filter(|s| !s.is_empty())
split_path(path) == SelectSeq(path, LAMBDA piece : piece # "")

Folder(name, parent) == [id |-> Append(parent, name), name |-> name, parent |-> parent]

\* the folders that lead to the last of names
FolderChain(names) ==
    {Folder(names[i], SubSeq(names, 1, i - 1)) : i \in 1..Len(names)}

Request(op, name, parent) ==
    [op |-> op, name |-> name, parent |-> parent, answer |-> [kind |-> "pending", id |-> Root]]

\* the answer to the last request sent
Answered(r, kind, id) ==
    [r EXCEPT !.requests[Len(r.requests)].answer = [kind |-> kind, id |-> id]]

\* find_folder: the folders of that name in that parent, not trashed
Matches(folders, name, parent) ==
    {f \in folders : f.name = name /\ f.parent = parent}

\* files.first(): the id of one of them, None when there is none
FirstMatch(matches) ==
    IF matches = {} THEN {None} ELSE {Some(f.id) : f \in matches}

create_needed_always(found) == TRUE

\* if let Some(folder_id) = find_folder(..).await? { return Ok(folder_id) }
create_needed(found) == ~found.some

\* parent_id = the id of the segment; the next segment, or Ok(parent_id)
Descend(r, id) ==
    IF r.i < Len(r.parts)
    THEN [r EXCEPT !.parent_id = id, !.i = @ + 1,
                   !.requests = Append(@, Request("lookup", r.parts[r.i + 1], id))]
    ELSE [r EXCEPT !.parent_id = id, !.pc = "done", !.status = "ok"]

\* the account holds the folders of some path
FoldersExist ==
    /\ resolve.pc = "idle"
    /\ drive = NoDrive
    /\ \E n \in 1..MaxPathLen : \E names \in [1..n -> Segments] :
         drive' = [drive EXCEPT !.folders = FolderChain(names)]
    /\ UNCHANGED <<authVars, job, probe, search, walk, detect, resolve, batch, deliver, calc, tui>>

\* find_or_create_folder is called: the lookup of the first segment is sent
ResolveCall ==
    /\ resolve.pc = "idle"
    /\ \E path \in FolderPaths :
         LET parts == split_path(path)
             r == [NoResolve EXCEPT !.path = path, !.parts = parts,
                                    !.before = drive.folders]
         IN  IF parts = << >>
             THEN resolve' = [r EXCEPT !.pc = "done", !.status = "err"]
             ELSE resolve' = [r EXCEPT !.pc = "lookup", !.i = 1, !.parent_id = Root,
                                       !.requests = <<Request("lookup", parts[1], Root)>>]
    /\ UNCHANGED <<authVars, job, probe, search, walk, detect, drive, batch, deliver, calc, tui>>

\* the folder a create request makes: Drive gives every folder an id of
\* its own, also when the parent holds a folder of that name
new_folder(folders, name, parent) ==
    IF Matches(folders, name, parent) = {} THEN Folder(name, parent)
    ELSE [id |-> Append(Append(parent, name), "2"), name |-> name, parent |-> parent]

\* find_folder: the call r after the answer to the lookup of its segment
AfterLookup(r, folders) ==
    LET name == r.parts[r.i]
    IN  {[Answered(r, "err", Root) EXCEPT !.pc = "done", !.status = "err"]}
        \cup
        {LET a == IF found.some THEN Answered(r, "id", found.v)
                  ELSE Answered(r, "none", Root)
         IN  IF create_needed(found)
             THEN [a EXCEPT !.pc = "create",
                            !.requests = Append(@, Request("create", name, a.parent_id))]
             ELSE [Descend(a, found.v) EXCEPT !.pc = IF @ = "done" THEN "done" ELSE "lookup"] :
           found \in FirstMatch(Matches(folders, name, r.parent_id))}

\* create_folder: the call r and the folders of the account after the
\* answer to the creation of its segment; a creation that fails for the
\* caller may have been carried out
AfterCreate(r, folders) ==
    LET f == new_folder(folders, r.parts[r.i], r.parent_id)
    IN  {[r |-> [Answered(r, "err", Root) EXCEPT !.pc = "done", !.status = "err"],
          folders |-> fs] : fs \in {folders, folders \cup {f}}}
        \cup
        {[r |-> [Descend(Answered(r, "id", f.id), f.id) EXCEPT
                    !.pc = IF @ = "done" THEN "done" ELSE "lookup"],
          folders |-> folders \cup {f}]}

\* find_folder: the answer to the lookup of a segment
ResolveLookupResponse ==
    /\ resolve.pc = "lookup"
    /\ resolve' \in AfterLookup(resolve, drive.folders)
    /\ UNCHANGED <<authVars, job, probe, search, walk, detect, drive, batch, deliver, calc, tui>>

\* create_folder: the answer to the creation of a segment
ResolveCreateResponse ==
    /\ resolve.pc = "create"
    /\ \E a \in AfterCreate(resolve, drive.folders) :
         /\ resolve' = a.r
         /\ drive' = [drive EXCEPT !.folders = a.folders]
    /\ UNCHANGED <<authVars, job, probe, search, walk, detect, batch, deliver, calc, tui>>

ResolveForget ==
    /\ resolve.pc = "done"
    /\ resolve' = NoResolve
    /\ drive' = NoDrive
    /\ UNCHANGED <<authVars, job, probe, search, walk, detect, batch, deliver, calc, tui>>

NextFolder ==
    \/ FoldersExist
    \/ ResolveCall
    \/ ResolveLookupResponse
    \/ ResolveCreateResponse
    \/ ResolveForget

InitFolder ==
    /\ Init
    /\ file = [s \in Services |-> Absent]

SpecFolder == InitFolder /\ [][NextFolder]_vars

(***************************************************************************)
(* SpecRace: two jobs resolve the same path at the same time; `peer` is    *)
(* the call of the second job.                                             *)
(***************************************************************************)
PeerCall ==
    /\ resolve.pc \notin {"idle", "done"}
    /\ resolve.peer = << >>
    /\ resolve' = [resolve EXCEPT !.peer =
                     [NoResolve EXCEPT
                        !.path = resolve.path, !.parts = resolve.parts,
                        !.before = drive.folders, !.pc = "lookup", !.i = 1,
                        !.parent_id = Root,
                        !.requests = <<Request("lookup", resolve.parts[1], Root)>>]]
    /\ UNCHANGED <<authVars, job, probe, search, walk, detect, drive, batch, deliver, calc, tui>>

PeerLookupResponse ==
    /\ resolve.peer # << >>
    /\ resolve.peer.pc = "lookup"
    /\ \E r \in AfterLookup(resolve.peer, drive.folders) :
         resolve' = [resolve EXCEPT !.peer = r]
    /\ UNCHANGED <<authVars, job, probe, search, walk, detect, drive, batch, deliver, calc, tui>>

PeerCreateResponse ==
    /\ resolve.peer # << >>
    /\ resolve.peer.pc = "create"
    /\ \E a \in AfterCreate(resolve.peer, drive.folders) :
         /\ resolve' = [resolve EXCEPT !.peer = a.r]
         /\ drive' = [drive EXCEPT !.folders = a.folders]
    /\ UNCHANGED <<authVars, job, probe, search, walk, detect, batch, deliver, calc, tui>>

NextRace ==
    \/ FoldersExist
    \/ ResolveCall
    \/ ResolveLookupResponse
    \/ ResolveCreateResponse
    \/ PeerCall
    \/ PeerLookupResponse
    \/ PeerCreateResponse
    \/ ResolveForget

SpecRace == InitFolder /\ [][NextRace]_vars

(***************************************************************************)
(* SpecUpload: upload_files of a batch into one folder of the account.     *)
(* The id of a file is its name and its rank among the files of that name. *)
(***************************************************************************)
FileNames == {"x.pdf", "y.pdf"}
Destination == <<"a">>

Batches == UNION {[1..n -> FileNames] : n \in 0..MaxFiles}

DriveFile(name, parent, n) == [id |-> <<name, n>>, name |-> name, parent |-> parent]

\* the file a multipart upload of that name creates in that folder
Created(files, name, parent) ==
    DriveFile(name, parent, 1 + Cardinality(Matches(files, name, parent)))

\* Ok(UploadSummary {}): the summary has no field
UploadSummary == [field \in {} |-> 0]

\* find_file_in_folder by the kind of its answer: a transport or parse
\* error is Err, an error status is Ok(None), else the first file found
lookup_result(kind) ==
    CASE kind \in {"transport", "garbled"} -> "fail"
      [] kind = "id" -> "skip"
      [] kind \in {"status", "none"} -> "upload"

\* the answers the account can give to the lookup of a name in a folder
LookupAnswers(files, name, parent) ==
    {[kind |-> k, id |-> Root] : k \in {"transport", "status", "garbled"}}
        \cup (IF Matches(files, name, parent) = {}
              THEN {[kind |-> "none", id |-> Root]}
              ELSE {[kind |-> "id", id |-> f.id] : f \in Matches(files, name, parent)})

Line(b, type, name) == [b EXCEPT !.tx = Append(@, [type |-> type, name |-> name])]

Outcome(b, kind, id) ==
    [b EXCEPT !.outcomes = Append(@, [name |-> b.file_paths[b.i], kind |-> kind, id |-> id])]

\* a request for the i-th file is sent; exists: the folder holds the name
Sent(b, op, files) ==
    [b EXCEPT !.requests =
        Append(@, [op |-> op, name |-> b.file_paths[b.i], answer |-> "pending",
                   exists |-> Matches(files, b.file_paths[b.i], Destination) # {}])]

BatchAnswered(b, kind) == [b EXCEPT !.requests[Len(b.requests)].answer = kind]

\* the loop over file_paths: the lookup of the next file (skip_duplicates
\* is true), or Ok(UploadSummary {})
NextPath(b, files) ==
    IF b.i < Len(b.file_paths)
    THEN [Sent([b EXCEPT !.i = @ + 1], "lookup", files) EXCEPT !.pc = "dup_check"]
    ELSE [b EXCEPT !.pc = "done", !.status = "ok", !.summary = UploadSummary]

file_failed_aborts(b, files, e) == [b EXCEPT !.pc = "done", !.status = "err"]

\* Err(e) of upload_file: the failure is reported, the loop goes on
file_failed(b, files, e) ==
    NextPath(Line(Outcome(b, "failed", e), "Failed to upload", b.file_paths[b.i]), files)

\* the folder holds files of some names
FilesExist ==
    /\ batch.pc = "idle"
    /\ drive = NoDrive
    /\ \E names \in SUBSET FileNames :
         /\ names # {}
         /\ drive' = [drive EXCEPT !.files = {DriveFile(n, Destination, 1) : n \in names}]
    /\ UNCHANGED <<authVars, job, probe, search, walk, detect, resolve, batch, deliver, calc, tui>>

\* upload_files is called: the lookup of the first file is sent
UploadCall ==
    /\ batch.pc = "idle"
    /\ \E paths \in Batches :
         batch' = NextPath([NoBatch EXCEPT !.file_paths = paths], drive.files)
    /\ UNCHANGED <<authVars, job, probe, search, walk, detect, drive, resolve, deliver, calc, tui>>

\* find_file_in_folder: the answer to the lookup; a duplicate is skipped,
\* else the temp file is read and the multipart upload is sent
BatchLookupResponse ==
    /\ batch.pc = "dup_check"
    /\ LET name == batch.file_paths[batch.i]
       IN  \E a \in LookupAnswers(drive.files, name, Destination) :
             LET b == BatchAnswered(batch, a.kind)
             IN  CASE lookup_result(a.kind) = "fail" ->
                        batch' = file_failed(b, drive.files, "Failed to search for file")
                   [] lookup_result(a.kind) = "skip" ->
                        batch' = NextPath(Outcome(Line(b, "Skipping duplicate", name),
                                                  "duplicate", a.id), drive.files)
                   [] lookup_result(a.kind) = "upload" ->
                        \/ batch' = file_failed(Line(b, "Uploading", name), drive.files,
                                                "Failed to read file")
                        \/ batch' = [Sent(Line(b, "Uploading", name), "upload", drive.files)
                                        EXCEPT !.pc = "upload"]
    /\ UNCHANGED <<authVars, job, probe, search, walk, detect, drive, resolve, deliver, calc, tui>>

\* the answer to the multipart upload; an upload that fails for the caller
\* may have been carried out
BatchUploadResponse ==
    /\ batch.pc = "upload"
    /\ LET name == batch.file_paths[batch.i]
           f == Created(drive.files, name, Destination)
           stored == [drive EXCEPT !.files = @ \cup {f}]
       IN  \/ /\ drive' \in {drive, stored}
              /\ \E kind \in {"transport", "status", "garbled"} :
                   batch' = file_failed(BatchAnswered(batch, kind), drive'.files,
                                        "Failed to upload file")
           \/ /\ drive' = stored
              /\ batch' = NextPath(Outcome(Line(BatchAnswered(batch, "ok"), "Uploaded", name),
                                           "uploaded", f.id), stored.files)
    /\ UNCHANGED <<authVars, job, probe, search, walk, detect, resolve, deliver, calc, tui>>

UploadForget ==
    /\ batch.pc = "done"
    /\ batch' = NoBatch
    /\ drive' = NoDrive
    /\ UNCHANGED <<authVars, job, probe, search, walk, detect, resolve, deliver, calc, tui>>

NextUpload ==
    \/ FilesExist
    \/ UploadCall
    \/ BatchLookupResponse
    \/ BatchUploadResponse
    \/ UploadForget

SpecUpload == InitFolder /\ [][NextUpload]_vars

(***************************************************************************)
(* The stages of run_manual_processing.                                    *)
(***************************************************************************)

\* ghost: a stage of the run begins / has ended
Begin(j, stage) == [j EXCEPT !.started = Append(@, stage)]
End(j, stage) == [j EXCEPT !.finished = @ \cup {stage}]
CurStage(j) == j.started[Len(j.started)]

\* return Ok(()) or propagate an error
Return(j, st) == [j EXCEPT !.pc = "done", !.status = st]
Abort(j) == Return(End(j, CurStage(j)), "err")

\* number of segments of <base>/<period> and of <base>/<period>/<bank>
PathLen(bank) == NumBaseSegments + 1 + (IF bank.some THEN 1 ELSE 0)

\* find_or_create_folder: the lookup of the first segment is sent
StartResolve(j, what, bank) ==
    [j EXCEPT !.pc = "lookup", !.resolving = what, !.seg = 1, !.group = bank]

\* indexes of the attachments of a bank group, in the order of all_attachments
GroupFiles(j, bank) ==
    LET F[i \in 0..Len(j.attachments)] ==
            IF i = 0 THEN << >>
            ELSE IF j.attachments[i].bank = bank THEN Append(F[i - 1], i)
            ELSE F[i - 1]
    IN  F[Len(j.attachments)]

\* tx.send of a control message or of the report of a failure
Send(j, msg) == [j EXCEPT !.tx = Append(@, msg)]

\* the __BANK_RESULT__ messages, one per entry of banks_processed
BankResults(processed) ==
    [i \in 1..Len(processed) |->
        [type |-> "__BANK_RESULT__", bank |-> processed[i].bank,
         uploaded |-> processed[i].uploaded, failed |-> processed[i].failed]]

\* the __RESULTS__ message and the messages that follow it
Summary(j) ==
    <<[type |-> "__RESULTS__", processed |-> Len(j.attachments),
       uploaded |-> j.total_uploaded, failed |-> j.total_failed]>>
        \o BankResults(j.banks_processed)

\* the loop over bank_groups: the next group, or cleanup and the summary
NextGroup(j) ==
    IF j.groups # {}
    THEN {StartResolve([j EXCEPT !.groups = @ \ {g}], "bank", g) : g \in j.groups}
    ELSE LET c == Begin(End(j, "upload"), "cleanup")
             d == Begin(End([c EXCEPT !.temp = {}], "cleanup"), "summary")
             e == [d EXCEPT !.tx = @ \o Summary(d)]
         IN  {Return(End(e, "summary"), "ok")}

\* the uploaded and failed values jobs.rs reads from the summary of a batch
\* of n files
SummaryValues(n) ==
    {c \in [uploaded : 0..n, failed : 0..n] : c.uploaded + c.failed <= n}

total_overwritten(total, count) == count

\* total_uploaded += ..., total_failed += ...
total(sum, count) == sum + count

\* upload_files returned: the totals, banks_processed
AfterBatch(j, c) ==
    [j EXCEPT !.total_uploaded = total(@, c.uploaded),
              !.total_failed = total(@, c.failed),
              !.banks_processed =
                  Append(@, [bank |-> j.group, uploaded |-> c.uploaded,
                             failed |-> c.failed])]

\* upload_files: the loop over file_paths
NextFile(j) ==
    IF Len(j.files) > 1
    THEN {[j EXCEPT !.files = Tail(@), !.pc = "dup_check"]}
    ELSE UNION {NextGroup(AfterBatch([j EXCEPT !.files = << >>], c)) :
                  c \in SummaryValues(Len(GroupFiles(j, j.group)))}

\* find_or_create_folder returned the id of the last segment
Resolved(j) ==
    IF j.resolving = "period"
    THEN NextGroup([Begin(End(j, "period_folder"), "upload") EXCEPT
                       !.groups = {j.attachments[i].bank : i \in 1..Len(j.attachments)}])
    ELSE LET files == GroupFiles(j, j.group)
         IN  {[j EXCEPT !.files = files, !.pc = "dup_check",
                        !.temp = @ \cup {files[i] : i \in 1..Len(files)}]}

\* find_or_create_folder: the loop over the path segments
AfterSegment(j) ==
    IF j.seg < PathLen(IF j.resolving = "period" THEN None ELSE j.group)
    THEN {[j EXCEPT !.seg = @ + 1, !.pc = "lookup"]}
    ELSE Resolved(j)

\* the loop over message_ids: the next message, or the end of the harvest
NextMessage(j) ==
    IF j.todo # {}
    THEN {[j EXCEPT !.pc = "fetch_message", !.cur = m, !.todo = @ \ {m}] : m \in j.todo}
    ELSE IF Len(j.attachments) = 0
    THEN {Return(End(j, "harvest"), "ok")}
    ELSE {StartResolve(Begin(End(j, "harvest"), "period_folder"), "period", None)}

message_failed_aborts(j) == {Abort(j)}

\* Err(e) of get_message_attachments: the failure is reported, the loop goes on
message_failed(j) ==
    NextMessage(Send(j, [type |-> "Failed to process message", msg |-> j.cur]))

\* the `?` on the result of get_gmail_token / get_drive_token
auth_failed_ignored(res) == FALSE

auth_failed(res) == res.status = "err"

\* run_manual_processing is called: configuration, then get_gmail_token
JobStart ==
    /\ job.pc = "idle"
    /\ pc[Caller] = "idle"
    /\ \/ /\ job' = Return(job, "err")
          /\ UNCHANGED authVars
       \/ /\ GetToken(Caller, "gmail", file, cleared["gmail"])
          /\ job' = [Begin(job, "gmail_auth") EXCEPT !.pc = "gmail_auth"]
          /\ UNCHANGED <<now, cleared>>
    /\ UNCHANGED unitVars

\* get_gmail_token returned: GmailClient::new, then get_drive_token
JobGmailReturned ==
    /\ job.pc = "gmail_auth"
    /\ pc[Caller] = "done"
    /\ LET j == [End(job, "gmail_auth") EXCEPT !.gmail = result[Caller].status]
       IN  IF auth_failed(result[Caller])
           THEN /\ job' = Return(j, "err")
                /\ UNCHANGED authVars
           ELSE /\ GetToken(Caller, "drive", file, cleared["drive"])
                /\ job' = [Begin(j, "drive_auth") EXCEPT !.pc = "drive_auth"]
                /\ UNCHANGED <<now, cleared>>
    /\ UNCHANGED unitVars

\* get_drive_token returned (its frame is dropped): DriveClient::new, then
\* the first search query
JobDriveReturned ==
    /\ job.pc = "drive_auth"
    /\ pc[Caller] = "done"
    /\ LET j == [End(job, "drive_auth") EXCEPT !.drive = result[Caller].status]
       IN  IF auth_failed(result[Caller])
           THEN job' = Return(j, "err")
           ELSE job' = [Begin(j, "search") EXCEPT !.pc = "search", !.kw = 1]
    /\ pc' = [pc EXCEPT ![Caller] = "idle"]
    /\ result' = [result EXCEPT ![Caller] = NoResult]
    /\ hist' = [hist EXCEPT ![Caller] = NoHist]
    /\ UNCHANGED <<file, now, listeners, cleared, svc, refresh, unitVars>>

\* search_invoices: the answer to the query of one keyword
SearchResponse ==
    /\ job.pc = "search"
    /\ \E a \in SearchAnswers :
         LET j == [job EXCEPT !.ids = insert_ids(@, a)]
         IN  IF job.kw < NumKeywords
             THEN job' = [j EXCEPT !.kw = @ + 1]
             ELSE IF j.ids = {}
             THEN job' = Return(End(j, "search"), "ok")
             ELSE job' \in NextMessage([Begin(End(j, "search"), "harvest") EXCEPT
                                           !.todo = j.ids])
    /\ UNCHANGED <<authVars, unitVars>>

\* get_message_attachments: the answer to the fetch of the message
MessageFetched ==
    /\ job.pc = "fetch_message"
    /\ \/ job' \in message_failed(job)
       \/ job' \in NextMessage(job)
       \/ \E n \in 1..MaxParts, b \in OptBank :
            job' = [job EXCEPT !.pc = "download", !.parts = n, !.bank = b]
    /\ UNCHANGED <<authVars, unitVars>>

\* download_attachment: the answer to the download of one attachment
AttachmentDownloaded ==
    /\ job.pc = "download"
    /\ \E ok \in BOOLEAN :
         LET a == [msg |-> job.cur, part |-> job.parts, bank |-> job.bank]
             j == [job EXCEPT !.parts = @ - 1,
                              !.attachments = IF ok THEN Append(@, a) ELSE @,
                              !.downloads = Append(@, [att |-> a, ok |-> ok])]
         IN  IF j.parts = 0
             THEN job' \in NextMessage([j EXCEPT !.bank = None, !.cur = 0])
             ELSE job' = j
    /\ UNCHANGED <<authVars, unitVars>>

\* find_folder: the answer to the lookup of one segment
FolderLookupResponse ==
    /\ job.pc = "lookup"
    /\ \/ job' = Abort(job)
       \/ \E found \in {None, Some(Root)} :
            IF create_needed(found)
            THEN job' = [job EXCEPT !.pc = "create"]
            ELSE job' \in AfterSegment(job)
    /\ UNCHANGED <<authVars, unitVars>>

\* create_folder: the answer to the creation of one segment
FolderCreateResponse ==
    /\ job.pc = "create"
    /\ \/ job' = Abort(job)
       \/ job' \in AfterSegment(job)
    /\ UNCHANGED <<authVars, unitVars>>

\* find_file_in_folder: the answer to the duplicate lookup of one file
DupCheckResponse ==
    /\ job.pc = "dup_check"
    /\ \E kind \in {"transport", "status", "garbled", "none", "id"} :
         \/ /\ lookup_result(kind) = "upload"
            /\ job' = [job EXCEPT !.pc = "upload"]
         \/ job' \in NextFile(job)
    /\ UNCHANGED <<authVars, unitVars>>

\* upload_file: the answer to the multipart upload of one file
UploadResponse ==
    /\ job.pc = "upload"
    /\ job' \in NextFile(job)
    /\ UNCHANGED <<authVars, unitVars>>

(***************************************************************************)
(* SpecDates: the date functions of process/jobs.rs and                    *)
(* scheduler/runner.rs.  A NaiveDate is its year, month and day.           *)
(***************************************************************************)
FirstYear == 2023
Years == FirstYear..(FirstYear + NumYears - 1)

days_in_month(year, month) ==
    CASE month \in {4, 6, 9, 11} -> 30
      [] month = 2 ->
           IF (year % 4 = 0 /\ year % 100 # 0) \/ year % 400 = 0 THEN 29 ELSE 28
      [] OTHER -> 31

\* NaiveDate::from_ymd_opt: the dates that exist
from_ymd_opt(year, month, day) ==
    IF month \in 1..12 /\ day \in 1..days_in_month(year, month)
    THEN Some([year |-> year, month |-> month, day |-> day])
    ELSE None

pred_opt_same_month(date) == [date EXCEPT !.day = 1]

\* NaiveDate::pred_opt: the day before
pred_opt(date) ==
    IF date.day > 1 THEN [date EXCEPT !.day = @ - 1]
    ELSE IF date.month > 1
    THEN [date EXCEPT !.month = @ - 1, !.day = days_in_month(date.year, date.month - 1)]
    ELSE [year |-> date.year - 1, month |-> 12, day |-> 31]

Dates ==
    {from_ymd_opt(y, m, d).v : <<y, m, d>> \in
        {t \in Years \X (1..12) \X (1..31) : from_ymd_opt(t[1], t[2], t[3]).some}}

\* the number of days from the first day of FirstYear to the date
num_days ==
    LET before[y \in Years, m \in 1..12] ==
            IF m = 1
            THEN IF y = FirstYear THEN 0 ELSE before[y - 1, 12] + days_in_month(y - 1, 12)
            ELSE before[y, m - 1] + days_in_month(y, m - 1)
    IN  [date \in Dates |-> before[date.year, date.month] + date.day - 1]

\* chrono::Month::name
month_name(month) ==
    <<"January", "February", "March", "April", "May", "June", "July", "August",
      "September", "October", "November", "December">>[month]

previous_month_billing_loose(days_in_end_month, total_days) ==
    days_in_end_month <= 15 /\ total_days >= 20

\* days_in_end_month < 15 && total_days > 20
previous_month_billing(days_in_end_month, total_days) ==
    days_in_end_month < 15 /\ total_days > 20

determine_billing_month(start_date, end_date) ==
    LET start_month == start_date.month
        end_month == end_date.month
    IN  IF start_month = end_month
        THEN month_name(end_month)
        ELSE LET first == from_ymd_opt(end_date.year, end_date.month, 1).v
                 days_in_end_month == num_days[end_date] - num_days[first] + 1
                 total_days == num_days[end_date] - num_days[start_date] + 1
             IN  IF previous_month_billing(days_in_end_month, total_days)
                 THEN month_name(start_month)
                 ELSE month_name(end_month)

\* determine_billing_month of a date range start <= end
BillingEvaluate ==
    /\ calc.f = "none"
    /\ \E start_date, end_date \in Dates :
         /\ num_days[start_date] <= num_days[end_date]
         /\ calc' = [f |-> "determine_billing_month",
                     in |-> [start_date |-> start_date, end_date |-> end_date],
                     out |-> determine_billing_month(start_date, end_date)]
    /\ UNCHANGED <<authVars, job, callVars, deliver, tui>>

CalcForget ==
    /\ calc.f # "none"
    /\ calc' = NoCalc
    /\ UNCHANGED <<authVars, job, callVars, deliver, tui>>

NextDates ==
    \/ BillingEvaluate
    \/ CalcForget

SpecDates == InitFolder /\ [][NextDates]_vars

(***************************************************************************)
(* SpecRange: the date ranges of scheduler/runner.rs.  A string is the     *)
(* list of its characters.                                                 *)
(***************************************************************************)
Digits == <<"0", "1", "2", "3", "4", "5", "6", "7", "8", "9">>

\* str::split: the pieces between the separators, empty ones included
split(str, sep) ==
    LET RECURSIVE Pieces(_, _, _)
        Pieces(i, piece, done) ==
            IF i > Len(str) THEN Append(done, piece)
            ELSE IF str[i] = sep THEN Pieces(i + 1, << >>, Append(done, piece))
            ELSE Pieces(i + 1, Append(piece, str[i]), done)
    IN  Pieces(1, << >>, << >>)

\* the number a string of digits stands for, None for any other string
parse_number(str) ==
    LET value[i \in 0..Len(str)] ==
            IF i = 0 THEN 0
            ELSE 10 * value[i - 1] + (CHOOSE d \in 0..9 : Digits[d + 1] = str[i])
    IN  IF str # << >> /\ \A i \in 1..Len(str) : str[i] \in Range(Digits)
        THEN Some(value[Len(str)])
        ELSE None

\* NaiveDate::parse_from_str(str, "%Y-%m-%d") of a string without sign or
\* blanks: year, month and day in digits, month and day of at most two
parse_from_str(str) ==
    LET parts == split(str, "-")
        numbers == [i \in 1..Len(parts) |-> parse_number(parts[i])]
    IN  IF /\ Len(parts) = 3
           /\ \A i \in 1..3 : numbers[i].some
           /\ Len(parts[2]) <= 2
           /\ Len(parts[3]) <= 2
        THEN from_ymd_opt(numbers[1].v, numbers[2].v, numbers[3].v)
        ELSE None

\* the order of NaiveDate
date_before(a, b) ==
    \/ a.year < b.year
    \/ a.year = b.year /\ a.month < b.month
    \/ a.year = b.year /\ a.month = b.month /\ a.day < b.day

end_before_start_ignored(start_date, end_date) == FALSE

\* end_date < start_date
end_before_start(start_date, end_date) == date_before(end_date, start_date)

parse_date_range(range_str) ==
    LET parts == split(range_str, ":")
    IN  IF Len(parts) # 2
        THEN [ok |-> FALSE, err |-> "Date range must be in format YYYY-MM-DD:YYYY-MM-DD"]
        ELSE LET start_date == parse_from_str(parts[1])
                 end_date == parse_from_str(parts[2])
             IN  IF ~start_date.some THEN [ok |-> FALSE, err |-> "Invalid start date"]
                 ELSE IF ~end_date.some THEN [ok |-> FALSE, err |-> "Invalid end date"]
                 ELSE IF end_before_start(start_date.v, end_date.v)
                 THEN [ok |-> FALSE, err |-> "End date must be after start date"]
                 ELSE [ok |-> TRUE, start_date |-> start_date.v, end_date |-> end_date.v]

\* the date strings a user enters
DateTexts ==
    {<<"2", "0", "2", "4", "-", "0", "9", "-", "0", "1">>,
     <<"2", "0", "2", "4", "-", "1", "0", "-", "1", "2">>,
     <<"2", "0", "2", "4", "-", "0", "2", "-", "3", "0">>,
     <<"2", "0", "2", "4", "-", "9", "-", "1">>,
     <<"d", "a", "t", "e">>,
     << >>}

\* the pieces joined by ':'
RangeTexts ==
    LET RECURSIVE joined(_, _)
        joined(pieces, i) ==
            IF i = Len(pieces) THEN pieces[i]
            ELSE pieces[i] \o <<":">> \o joined(pieces, i + 1)
    IN  {joined(pieces, 1) :
            pieces \in UNION {[1..n -> DateTexts] : n \in 1..MaxRangeParts}}

\* get_previous_month_range at the date `now`
get_previous_month_range(now_date) ==
    LET current_year == now_date.year
        current_month == now_date.month
        prev == IF current_month = 1
                THEN [year |-> current_year - 1, month |-> 12]
                ELSE [year |-> current_year, month |-> current_month - 1]
        next_first == IF prev.month = 12
                      THEN [year |-> prev.year + 1, month |-> 1, day |-> 1]
                      ELSE [year |-> prev.year, month |-> prev.month + 1, day |-> 1]
    IN  <<from_ymd_opt(prev.year, prev.month, 1).v, pred_opt(next_first)>>

ParseRangeEvaluate ==
    /\ calc.f = "none"
    /\ \E range_str \in RangeTexts :
         calc' = [f |-> "parse_date_range", in |-> range_str,
                  out |-> parse_date_range(range_str)]
    /\ UNCHANGED <<authVars, job, callVars, deliver, tui>>

PreviousMonthEvaluate ==
    /\ calc.f = "none"
    /\ \E now_date \in Dates :
         calc' = [f |-> "get_previous_month_range", in |-> now_date,
                  out |-> get_previous_month_range(now_date)]
    /\ UNCHANGED <<authVars, job, callVars, deliver, tui>>

(***************************************************************************)
(* SpecDeliver: run_manual_processing from the period folder on, for one   *)
(* harvest: grouping, bank folders, temp copies, upload, cleanup, summary. *)
(* A folder id is the path it was resolved from.                           *)
(***************************************************************************)
Harvests ==
    UNION {[1..n -> [filename : FileNames, bank : OptBank]] : n \in 1..MaxFiles}

monthly_folder_path == <<"base", "period">>

bank_display_name(bank_name) == IF bank_name.some THEN bank_name.v ELSE "General"

bank_folder_path_flat(bank_name) == monthly_folder_path

bank_folder_path(bank_name) ==
    IF bank_name.some THEN Append(monthly_folder_path, bank_name.v)
    ELSE monthly_folder_path

\* bank_groups.entry(bank_name).or_insert_with(Vec::new).push(attachment)
bank_groups(attachments) ==
    [g \in {attachments[i].bank : i \in 1..Len(attachments)} |->
        SelectSeq([i \in 1..Len(attachments) |-> i],
                  LAMBDA i : attachments[i].bank = g)]

\* std::fs::write: the file of that name holds the bytes of attachment att
write(data, name, att) ==
    {f \in data : f.name # name} \cup {[name |-> name, att |-> att]}

\* std::fs::remove_file
remove_file(data, name) == {f \in data : f.name # name}

\* std::fs::read: the attachment whose bytes the file holds
read(data, name) == (CHOOSE f \in data : f.name = name).att

\* save_attachment_to_temp of the attachments of the group from the k-th
\* on: a copy is written and its path kept, or the write fails and the
\* failure is reported
SaveFrom(d, k) ==
    LET atts == d.bank_groups[d.group]
        RECURSIVE Rest(_, _)
        Rest(x, n) ==
            IF n > Len(atts) THEN {x}
            ELSE LET name == x.attachments[atts[n]].filename
                     saved == [x EXCEPT !.tmp = @ \cup {name},
                                        !.written = @ \cup {name},
                                        !.data = write(@, name, atts[n]),
                                        !.file_paths = Append(@, [name |-> name,
                                                                  att |-> atts[n]])]
                     failed == Send(x, [type |-> "Failed to save", name |-> name])
                 IN  UNION {Rest(y, n + 1) : y \in {saved, failed}}
    IN  Rest(d, k)

\* the cleanup loop from the k-th attachment on: the copy is written again
\* to get its path and removed; a failed write skips the removal, a failed
\* removal is reported
CleanupFrom(d, k) ==
    LET RECURSIVE Rest(_, _)
        Rest(x, n) ==
            IF n > Len(x.attachments) THEN {x}
            ELSE LET name == x.attachments[n].filename
                     rewritten == [x EXCEPT !.tmp = @ \cup {name},
                                            !.written = @ \cup {name},
                                            !.data = write(@, name, n)]
                 IN  UNION {Rest(y, n + 1) :
                              y \in {x, [x EXCEPT !.tmp = @ \ {name},
                                                  !.data = remove_file(@, name)],
                                     Send(rewritten, [type |-> "Failed to remove temp file",
                                                      name |-> name])}}
    IN  Rest(d, k)

\* the loop over bank_groups, in the order of the map: the folder of the
\* next group is resolved; after the last one, cleanup and summary
DeliverNextGroup(d) ==
    IF d.groups # {}
    THEN {[Send(d, [type |-> "Processing bank", name |-> bank_display_name(g),
                    key |-> g])
              EXCEPT !.groups = @ \ {g}, !.group = g, !.pc = "bank"] : g \in d.groups}
    ELSE {[x EXCEPT !.tx = @ \o Summary(x), !.pc = "done", !.status = "ok"] :
            x \in CleanupFrom(d, 1)}

\* upload_files returned
DeliverAfterBatch(d) ==
    UNION {DeliverNextGroup(AfterBatch(d, c)) : c \in SummaryValues(Len(d.file_paths))}

\* the harvest is not empty: the period folder is resolved; the
\* destination folders are empty, or hold a file x.pdf
DeliverCall ==
    /\ deliver.pc = "idle"
    /\ \E attachments \in Harvests, before \in {{}, {"x.pdf"}} :
         deliver' = [NoDeliver EXCEPT !.attachments = attachments,
                                      !.before = before, !.pc = "period"]
    /\ UNCHANGED <<authVars, job, callVars, calc, tui>>

\* find_or_create_folder of the period folder returned
PeriodFolderResolved ==
    /\ deliver.pc = "period"
    /\ \/ deliver' = [deliver EXCEPT !.pc = "done", !.status = "err"]
       \/ LET groups == bank_groups(deliver.attachments)
          IN  deliver' \in DeliverNextGroup([deliver EXCEPT !.bank_groups = groups,
                                                            !.groups = DOMAIN groups])
    /\ UNCHANGED <<authVars, job, callVars, calc, tui>>

\* find_or_create_folder of the folder of the group returned: the temp
\* copies of the group are written and upload_files is called
BankFolderResolved ==
    /\ deliver.pc = "bank"
    /\ \/ deliver' = [deliver EXCEPT !.pc = "done", !.status = "err"]
       \/ \E d \in SaveFrom([deliver EXCEPT !.folder = bank_folder_path(deliver.group),
                                            !.file_paths = << >>], 1) :
            IF d.file_paths = << >>
            THEN deliver' \in DeliverAfterBatch(d)
            ELSE deliver' = [d EXCEPT !.pc = "upload", !.i = 1]
    /\ UNCHANGED <<authVars, job, callVars, calc, tui>>

\* a file of that name is in the folder: it was there before the run, or
\* the run has uploaded it
in_folder(d, name, folder) ==
    \/ name \in d.before
    \/ \E k \in 1..Len(d.uploads) :
         /\ d.uploads[k].name = name
         /\ d.uploads[k].folder = folder
         /\ d.uploads[k].outcome = "uploaded"

\* upload_file of the i-th path returned; an upload needs the copy and
\* sends the bytes it holds, a duplicate needs a file of that name in the
\* folder
FileDelivered ==
    /\ deliver.pc = "upload"
    /\ \E outcome \in {"uploaded", "duplicate", "failed"} :
         LET path == deliver.file_paths[deliver.i]
             d == [deliver EXCEPT !.uploads =
                      Append(@, [att |-> path.att, name |-> path.name,
                                 folder |-> deliver.folder, outcome |-> outcome,
                                 sent |-> IF outcome = "uploaded"
                                          THEN read(deliver.data, path.name)
                                          ELSE 0])]
         IN  /\ outcome = "uploaded" => path.name \in deliver.tmp
             /\ outcome = "duplicate" =>
                  in_folder(deliver, path.name, deliver.folder)
             /\ IF deliver.i < Len(deliver.file_paths)
                THEN deliver' = [d EXCEPT !.i = @ + 1]
                ELSE deliver' \in DeliverAfterBatch(d)
    /\ UNCHANGED <<authVars, job, callVars, calc, tui>>

DeliverForget ==
    /\ deliver.pc = "done"
    /\ deliver' = NoDeliver
    /\ UNCHANGED <<authVars, job, callVars, calc, tui>>

NextDeliver ==
    \/ DeliverCall
    \/ PeriodFolderResolved
    \/ BankFolderResolved
    \/ FileDelivered
    \/ DeliverForget

SpecDeliver == InitFolder /\ [][NextDeliver]_vars

\* the answers of the provider during a run: one access token, at most one
\* refresh token
JobTokens(f) ==
    \A s \in Services :
        f[s].kind = "token" =>
            /\ f[s].access_token = 1
            /\ f[s].refresh_token \in {None, Some(1)}

JobAuthStep ==
    /\ job.pc \in {"gmail_auth", "drive_auth"}
    /\ \/ RefreshResponse(Caller)
       \/ AcceptRedirect(Caller)
       \/ ExchangeResponse(Caller)
    /\ JobTokens(file')

\* cache files a run can find: none, damaged, valid, expired with and
\* without refresh token
JobInitFiles ==
    {Absent, Garbage,
     TokenCache(1, Some(1), Some(ExpiryMargin + 1)),
     TokenCache(1, Some(1), Some(ExpiryMargin)),
     TokenCache(1, None, Some(ExpiryMargin))}

InitJob ==
    /\ file \in [Services -> JobInitFiles]
    /\ now = 0
    /\ listeners = {}
    /\ cleared = [s \in Services |-> FALSE]
    /\ pc = [t \in Tasks |-> "idle"]
    /\ svc = [t \in Tasks |-> "gmail"]
    /\ refresh = [t \in Tasks |-> 0]
    /\ result = [t \in Tasks |-> NoResult]
    /\ hist = [t \in Tasks |-> NoHist]
    /\ probe = NoProbe
    /\ search = NoSearch
    /\ walk = NoWalk
    /\ detect = NoDetect
    /\ drive = NoDrive
    /\ resolve = NoResolve
    /\ batch = NoBatch
    /\ deliver = NoDeliver
    /\ calc = NoCalc
    /\ tui = NoTui
    /\ job = NoJob

NextJob ==
    \/ JobStart
    \/ JobAuthStep
    \/ JobGmailReturned
    \/ JobDriveReturned
    \/ SearchResponse
    \/ MessageFetched
    \/ AttachmentDownloaded
    \/ FolderLookupResponse
    \/ FolderCreateResponse
    \/ DupCheckResponse
    \/ UploadResponse

SpecJob == InitJob /\ [][NextJob]_vars

(***************************************************************************)
(* Properties of the token lifecycle and of the authorization flow.        *)
(***************************************************************************)
Started(t) == pc[t] # "idle"

\* the token loaded by the call was past its safety margin when it was loaded
LoadedExpired(h) ==
    /\ h.loaded.kind = "token"
    /\ h.loaded.expires_at.some
    /\ h.loadedAt >= h.loaded.expires_at.v - 300

\* the redirect received by t carried a state other than the CSRF token of t
BadState(t) ==
    /\ hist[t].accepts = 1
    /\ hist[t].req.state.some
    /\ hist[t].req.state.v # t

NoExchangeNoWriteNoRetry(t) ==
    /\ pc[t] = "done"
    /\ result[t].status = "err"
    /\ hist[t].exchanges = 0
    /\ hist[t].writes = 0
    /\ hist[t].binds = 1
    /\ hist[t].accepts = 1

\* C1, as stated: a redirect whose state differs from the CSRF token of the
\* attempt always fails with the CSRF error, without exchange, cache write
\* or retry.
C1_AsStated ==
    \A t \in Tasks :
        BadState(t) => (NoExchangeNoWriteNoRetry(t) /\ result[t].err = ErrCsrf)

\* C1, amended: a redirect whose state differs from the CSRF token of the
\* attempt makes the attempt fail without exchange, cache write or retry; the
\* error is the CSRF error when the redirect carries a code, and the
\* missing-code error when it does not.
C1_CsrfMismatchFatal ==
    \A t \in Tasks :
        BadState(t) =>
            /\ NoExchangeNoWriteNoRetry(t)
            /\ result[t].err = (IF hist[t].req.code.some THEN ErrCsrf ELSE ErrNoCode)

C1_Witness ==
    \E t \in Tasks :
        /\ BadState(t)
        /\ hist[t].req.code.some
        /\ result[t].err = ErrCsrf
        /\ hist[t].exchanges = 0

\* C2: a refresh is attempted only for a loaded token that is expired and has
\* a refresh token; the authorization flow is started exactly when the cache
\* file is missing or unparseable, or the token is expired without a refresh
\* token, or the refresh failed.
C2_RefreshAndFlowDecision ==
    \A t \in Tasks :
        Started(t) =>
            LET h == hist[t] IN
            /\ h.refreshes <= 1
            /\ (h.refreshes = 1) => (LoadedExpired(h) /\ h.loaded.refresh_token.some)
            /\ h.refreshFailed => (h.refreshes = 1)
            /\ (h.binds >= 1) <=>
                   \/ h.loaded.kind = "absent"
                   \/ h.loaded.kind = "garbage"
                   \/ (LoadedExpired(h) /\ ~h.loaded.refresh_token.some)
                   \/ h.refreshFailed

C2_Witness ==
    \E t \in Tasks :
        /\ hist[t].refreshFailed
        /\ hist[t].binds = 1
        /\ pc[t] = "accepting"

\* C3: a call that loads a parseable, unexpired token returns that token's
\* access_token at once, with no refresh request, no bind, accept or exchange,
\* and no write to the cache file.
C3_CachedTokenShortCircuit ==
    \A t \in Tasks :
        (Started(t) /\ hist[t].loaded.kind = "token" /\ ~LoadedExpired(hist[t])) =>
            /\ pc[t] = "done"
            /\ result[t] = Ok(hist[t].loaded.access_token, "cached")
            /\ hist[t].refreshes = 0
            /\ hist[t].binds = 0
            /\ hist[t].accepts = 0
            /\ hist[t].exchanges = 0
            /\ hist[t].writes = 0
            /\ t \notin listeners

C3_Witness ==
    \E t \in Tasks :
        /\ pc[t] = "done"
        /\ result[t].path = "cached"
        /\ hist[t].loaded.kind = "token"
        /\ hist[t].loaded.expires_at.some

\* the step is a return of Ok from the call of t
ReturnsOk(t) ==
    /\ pc'[t] = "done"
    /\ result'[t].status = "ok"
    /\ (pc[t] # "done" \/ result'[t] # result[t] \/ hist'[t] # hist[t])

\* C4: at the moment a call returns Ok(tok), the cache file of its service
\* holds a token whose access_token is tok.
C4_ReturnedTokenIsCached ==
    [][\A t \in Tasks :
          ReturnsOk(t) =>
              /\ file'[svc'[t]].kind = "token"
              /\ file'[svc'[t]].access_token = result'[t].token]_vars

C4_Witness ==
    \E t \in Tasks :
        /\ pc[t] = "done"
        /\ result[t].path = "authorized"
        /\ hist[t].writes = 1
        /\ file[svc[t]].kind = "token"
        /\ file[svc[t]].access_token = result[t].token

\* the step is the successful end of the refresh of t
RefreshSucceeds(t) ==
    /\ pc[t] = "refreshing"
    /\ pc'[t] = "done"
    /\ result'[t].path = "refreshed"

\* C5: after a successful refresh the cache file holds the refresh token of
\* the answer if it has one, and the one that was loaded otherwise; it always
\* holds one.
C5_RefreshTokenKept ==
    [][\A t \in Tasks :
          RefreshSucceeds(t) =>
              LET answered == hist'[t].answer.refresh_token
                  saved == file'[svc[t]].refresh_token
              IN  /\ saved.some
                  /\ saved = (IF answered.some THEN answered
                                               ELSE hist[t].loaded.refresh_token)]_vars

C5_Witness ==
    \E t \in Tasks :
        /\ pc[t] = "done"
        /\ result[t].path = "refreshed"
        /\ ~hist[t].answer.refresh_token.some
        /\ file[svc[t]].kind = "token"
        /\ file[svc[t]].refresh_token = hist[t].loaded.refresh_token
        /\ file[svc[t]].access_token = hist[t].answer.access_token

\* C6: is_expired is true iff expires_at is present and
\* now >= expires_at - 300; without expires_at it is false.
C6_IsExpired ==
    probe.done =>
        /\ probe.out <=> (probe.expires_at.some /\ probe.now >= probe.expires_at.v - 300)
        /\ ~probe.expires_at.some => ~probe.out

C6_Witness ==
    /\ probe.done
    /\ probe.expires_at.some
    /\ probe.now = probe.expires_at.v - 300
    /\ probe.out

ErrorMessages == {ErrBind, ErrRequest, ErrNoCode, ErrNoState, ErrCsrf, ErrExchange}

\* C7: an attempt binds at most once, accepts at most one connection and
\* sends at most one exchange; a failed attempt reports the error of its cause
\* (the six messages differ), has written no cache file and holds no listener.
C7_FailuresFatalAndDistinct ==
    /\ Cardinality(ErrorMessages) = 6
    /\ \A t \in Tasks :
         LET h == hist[t]
             r == result[t]
         IN  /\ h.binds <= 1 /\ h.accepts <= 1 /\ h.exchanges <= 1
             /\ h.accepts = 1 => (h.binds = 1 /\ h.blockedBy = NoTask)
             /\ h.exchanges = 1 => h.accepts = 1
             /\ (pc[t] = "done" /\ r.path = "authorized") =>
                    (h.binds = 1 /\ h.accepts = 1 /\ h.exchanges = 1 /\ h.writes = 1)
             /\ (pc[t] = "done" /\ r.status = "err") =>
                    /\ h.writes = 0
                    /\ t \notin listeners
                    /\ r.err \in ErrorMessages
                    /\ h.blockedBy # NoTask => (r.err = ErrBind /\ h.accepts = 0)
                    /\ (h.accepts = 1 /\ h.exchanges = 0) =>
                           r.err = (IF ~h.req.target THEN ErrRequest
                                    ELSE IF ~h.req.code.some THEN ErrNoCode
                                    ELSE IF ~h.req.state.some THEN ErrNoState
                                    ELSE ErrCsrf)
                    /\ h.exchanges = 1 => r.err = ErrExchange

C7_Witness ==
    \E t \in Tasks :
        /\ pc[t] = "done"
        /\ result[t].err = ErrExchange
        /\ hist[t].exchanges = 1
        /\ hist[t].writes = 0
        /\ file[svc[t]] = hist[t].loaded

\* C8: at most one task holds the redirect port; a bind fails exactly for the
\* attempt that found the port held by another, waiting attempt, and it is
\* that attempt alone that gets the port-in-use error.
C8_OnePortHolder ==
    /\ Cardinality(listeners) <= 1
    /\ \A t \in Tasks :
         /\ t \in listeners <=> pc[t] \in {"accepting", "exchanging"}
         /\ result[t].err = ErrBind <=> hist[t].blockedBy # NoTask
         /\ hist[t].blockedBy # NoTask =>
                /\ hist[t].blockedBy \in Tasks \ {t}
                /\ Started(hist[t].blockedBy)
                /\ hist[hist[t].blockedBy].blockedBy = NoTask
                /\ pc[t] = "done"
                /\ hist[t].accepts = 0

C8_Witness ==
    \E t, u \in Tasks :
        /\ hist[u].blockedBy = t
        /\ result[u].err = ErrBind
        /\ pc[t] = "done"
        /\ result[t].path = "authorized"

\* C9: a reset leaves no cache file, whether or not there was one; a call of
\* get_<service>_token that finds the service as the reset left it issues no
\* refresh, binds the listener, and returns no token but one obtained by the
\* authorization flow.
C9_ResetForcesAuthorization ==
    /\ \A s \in Services : cleared[s] => file[s] = Absent
    /\ \A t \in Tasks :
         (Started(t) /\ hist[t].afterReset) =>
             /\ hist[t].loaded = Absent
             /\ hist[t].refreshes = 0
             /\ hist[t].binds = 1
             /\ result[t].status = "ok" => result[t].path = "authorized"

C9_Witness ==
    \E t \in Tasks :
        /\ hist[t].afterReset
        /\ pc[t] = "done"
        /\ result[t].path = "authorized"
        /\ ~cleared[svc[t]]


\* the stage the position of the job belongs to
StageOf(p) ==
    CASE p = "gmail_auth" -> "gmail_auth"
      [] p = "drive_auth" -> "drive_auth"
      [] p = "search" -> "search"
      [] p \in {"fetch_message", "download"} -> "harvest"
      [] p \in {"lookup", "create"} ->
            IF job.resolving = "period" THEN "period_folder" ELSE "upload"
      [] p \in {"dup_check", "upload"} -> "upload"
      [] OTHER -> "none"

IsPrefix(s, t) ==
    /\ Len(s) <= Len(t)
    /\ \A i \in 1..Len(s) : s[i] = t[i]

\* C10: the stages of a run begin in the order Gmail authorization, Drive
\* authorization, search, harvest, period folder, upload, cleanup, summary,
\* none skipped; a stage begins only when every earlier one has ended; the
\* one request in flight belongs to the last stage begun and the harvest
\* works on one message; after a failed Gmail authorization neither Drive
\* authorization nor search begins.
C10_StagesInOrder ==
    /\ IsPrefix(job.started, StageOrder)
    /\ \A i \in 1..Len(job.started) :
         (i < Len(job.started) \/ job.pc = "done") => job.started[i] \in job.finished
    /\ job.finished \subseteq {job.started[i] : i \in 1..Len(job.started)}
    /\ job.pc \notin {"idle", "done"} =>
         /\ StageOf(job.pc) = CurStage(job)
         /\ CurStage(job) \notin job.finished
    /\ pc[Caller] \in {"refreshing", "accepting", "exchanging"} =>
         job.pc \in {"gmail_auth", "drive_auth"}
    /\ job.pc \in {"fetch_message", "download"} =>
         (job.cur \in job.ids /\ job.cur \notin job.todo)
    /\ job.gmail = "err" =>
         /\ job.started = <<"gmail_auth">>
         /\ job.pc = "done"
         /\ job.status = "err"
    /\ job.gmail = "none" => Len(job.started) <= 1
    /\ job.drive = "err" => job.started = <<"gmail_auth", "drive_auth">>

C10_Witness ==
    /\ job.pc = "done"
    /\ job.status = "ok"
    /\ job.started = StageOrder
    /\ job.gmail = "ok"
    /\ job.drive = "ok"
    /\ Len(job.attachments) = 2

(***************************************************************************)
(* Properties of the search, the harvest and the delivery.                 *)
(***************************************************************************)
\* C11: when search_invoices returns, it returns Ok; it has sent one query
\* per keyword, in the order of the list; its result holds exactly the ids of
\* the answers that succeeded, each id once.
C11_SearchIsUnionOfSuccesses ==
    search.pc = "done" =>
        /\ search.status = "ok"
        /\ search.queries = search.keywords
        /\ Len(search.answers) = Len(search.keywords)
        /\ Range(search.final_results) =
               UNION {Range(search.answers[i].ids) :
                        i \in {k \in 1..Len(search.answers) : search.answers[k].ok}}
        /\ Cardinality(Range(search.final_results)) = Len(search.final_results)

\* two keywords match the same message, and another query fails
C11_Witness ==
    /\ search.pc = "done"
    /\ \E i, k \in 1..Len(search.answers) :
         /\ i < k
         /\ search.answers[i].ok /\ search.answers[k].ok
         /\ Range(search.answers[i].ids) \cap Range(search.answers[k].ids) # {}
         /\ Range(search.answers[i].ids) # Range(search.answers[k].ids)
    /\ Len(search.final_results) = NumMessages

\* the attachments of the downloads that succeeded, in the order of the
\* downloads
Succeeded(downloads) ==
    LET F[i \in 0..Len(downloads)] ==
            IF i = 0 THEN << >>
            ELSE IF downloads[i].ok THEN Append(F[i - 1], downloads[i].att)
            ELSE F[i - 1]
    IN  F[Len(downloads)]

FailedMessages(j) ==
    {j.tx[i].msg : i \in {k \in 1..Len(j.tx) : j.tx[k].type = "Failed to process message"}}

C13_FolderFailureSkipsGroup ==
    (job.pc = "done" /\ "upload" \in Range(job.started)) =>
        /\ job.status = "ok"
        /\ job.groups = {}
        /\ "summary" \in job.finished

\* the positions of the parts of a tree: the list of child indexes that
\* leads from the root to the part
RECURSIVE Positions(_)
Positions(part) ==
    {<< >>} \cup UNION {{<<i>> \o p : p \in Positions(part.parts[i])} :
                          i \in 1..Len(part.parts)}

RECURSIVE PartAt(_, _)
PartAt(part, pos) ==
    IF pos = << >> THEN part ELSE PartAt(part.parts[Head(pos)], Tail(pos))

\* depth-first preorder: a part comes before its descendants, and before
\* the later siblings of its ancestors and their descendants
Precedes(p, q) ==
    /\ p # q
    /\ \E n \in 0..Len(p) :
         /\ n <= Len(q)
         /\ \A i \in 1..n : p[i] = q[i]
         /\ \/ n = Len(p)
            \/ n < Len(q) /\ p[n + 1] < q[n + 1]

\* C14: find_attachments returns one entry per part that has a filename, a
\* non-empty one, and a body with an attachment id, whatever its depth, and
\* no other entry; the entries are in depth-first preorder of their parts.
C14_FindAttachmentsPreorder ==
    walk.done =>
        LET named == {p \in Positions(walk.part) :
                        LET part == PartAt(walk.part, p)
                        IN  /\ part.filename \notin {None, Some("")}
                            /\ part.body # None
                            /\ part.body.v.attachment_id # None}
        IN  /\ Len(walk.attachments) = Cardinality(named)
            /\ \A p \in named :
                 LET part == PartAt(walk.part, p)
                     k == 1 + Cardinality({q \in named : Precedes(q, p)})
                 IN  walk.attachments[k] =
                         [filename |-> part.filename.v,
                          attachment_id |-> part.body.v.attachment_id.v]

\* an attachment nested two levels below a part that is none, found after an
\* attachment of another id
C14_Witness ==
    /\ walk.done
    /\ ~is_attachment(walk.part)
    /\ Len(walk.attachments) = 2
    /\ walk.attachments[1].attachment_id # walk.attachments[2].attachment_id
    /\ <<1, 1>> \in Positions(walk.part)

\* the bank names reported for the patterns of bank_patterns
BankNames ==
    <<<<"W", "i", "s", "e">>,
    <<"R", "e", "v", "o", "l", "u", "t">>,
    <<"T", "r", "a", "n", "s", "f", "e", "r", "w", "i", "s", "e">>,
    <<"I", "n", "g">>,
    <<"D", "e", "u", "t", "s", "c", "h", "e", " ", "B", "a", "n", "k">>,
    <<"B", "a", "n", "k">>>>

\* the same letter, in either case
SameLetter(c, d) ==
    \/ c = d
    \/ \E i \in 1..26 : {c, d} = {LowerCase[i], UpperCase[i]}

\* pattern occurs in str, cases ignored
Occurs(pattern, str) ==
    \E at \in 0..(Len(str) - Len(pattern)) :
        \A i \in 1..Len(pattern) : SameLetter(pattern[i], str[at + i])

\* the text of a message: the value of each header followed by a space,
\* then the body
MessageText(headers, body) ==
    LET H[i \in 0..Len(headers)] ==
            IF i = 0 THEN << >> ELSE H[i - 1] \o headers[i].value \o <<" ">>
    IN  H[Len(headers)] \o (IF body = None THEN << >> ELSE body.v)

\* C15: detect_bank_name reports the first pattern of bank_patterns that
\* occurs, cases ignored, in the text of the message, wherever in the text it
\* and the later patterns occur, as its title-cased name; it reports None
\* when no pattern occurs.
C15_FirstPatternWins ==
    detect.done =>
        LET text == MessageText(detect.headers, detect.body)
            occurring == {i \in 1..Len(bank_patterns) : Occurs(bank_patterns[i], text)}
        IN  IF occurring = {} THEN detect.out = None
            ELSE detect.out =
                     Some(BankNames[CHOOSE i \in occurring : \A k \in occurring : i <= k])

\* "REVOLUT" precedes "Wise" in the text and "wise" precedes "revolut" in the
\* list: Wise is reported
C15_Witness ==
    /\ detect.done
    /\ detect.headers = <<MessageHeader(From, <<"R", "E", "V", "O", "L", "U", "T">>),
                          MessageHeader(Subject, <<"W", "i", "s", "e">>)>>
    /\ detect.out = Some(<<"W", "i", "s", "e">>)

\* the pieces of a path that are not empty, in the order of the path
NonEmptyPieces(path) ==
    LET F[i \in 0..Len(path)] ==
            IF i = 0 THEN << >>
            ELSE IF path[i] = "" THEN F[i - 1] ELSE Append(F[i - 1], path[i])
    IN  F[Len(path)]

\* the segment the k-th request is about: the number of lookups up to it
SegmentOf(requests, k) ==
    Cardinality({l \in 1..k : requests[l].op = "lookup"})

\* C16: the requests of find_or_create_folder go through the non-empty
\* segments of the path from left to right: one lookup per segment, the first
\* in the root and each other in the folder whose id the previous segment
\* gave; a create only right after the lookup of the same segment has found
\* nothing, for the same name and parent, and never for a folder the account
\* held at the call; the call returns the id the last segment gave.
C16_ResolveLeftToRight ==
    LET reqs == resolve.requests
        segs == NonEmptyPieces(resolve.path)
    IN  /\ \A k \in 1..Len(reqs) :
             /\ SegmentOf(reqs, k) <= Len(segs)
             /\ reqs[k].name = segs[SegmentOf(reqs, k)]
             /\ reqs[k].op = "lookup" =>
                  IF k = 1 THEN reqs[k].parent = Root
                  ELSE /\ reqs[k - 1].answer.kind = "id"
                       /\ reqs[k].parent = reqs[k - 1].answer.id
             /\ reqs[k].op = "create" =>
                  /\ k > 1
                  /\ reqs[k - 1].op = "lookup"
                  /\ reqs[k - 1].answer.kind = "none"
                  /\ reqs[k].parent = reqs[k - 1].parent
                  /\ Matches(resolve.before, reqs[k].name, reqs[k].parent) = {}
             /\ (k < Len(reqs) /\ reqs[k].answer.kind = "none") =>
                  reqs[k + 1].op = "create"
        /\ (resolve.pc = "done" /\ resolve.status = "ok") =>
             /\ SegmentOf(reqs, Len(reqs)) = Len(segs)
             /\ reqs[Len(reqs)].answer.kind = "id"
             /\ resolve.parent_id = reqs[Len(reqs)].answer.id

\* a path of three segments: the first exists and is reused, the other two
\* are created
C16_Witness ==
    /\ resolve.pc = "done"
    /\ resolve.status = "ok"
    /\ Len(NonEmptyPieces(resolve.path)) = 3
    /\ Len(resolve.requests) = 5
    /\ resolve.requests[1].answer.kind = "id"
    /\ resolve.requests[3].op = "create"
    /\ resolve.requests[5].op = "create"

Lookups(reqs) == SelectSeq(reqs, LAMBDA r : r.op = "lookup")

\* the requests made for the k-th file of the batch
RequestsOf(b, k) ==
    {n \in 1..Len(b.requests) :
        Len(Lookups(SubSeq(b.requests, 1, n))) = k}

C18_NoUploadOfExistingName ==
    /\ \A n \in 1..Len(batch.requests) :
         batch.requests[n].op = "upload" => ~batch.requests[n].exists
    /\ \A k \in 1..Len(batch.outcomes) :
         batch.outcomes[k].kind = "duplicate" =>
           \E f \in Matches(drive.files, batch.outcomes[k].name, Destination) :
             f.id = batch.outcomes[k].id

Count(outcomes, kind) == Len(SelectSeq(outcomes, LAMBDA o : o.kind = kind))

\* C19: the summary upload_files returns has an uploaded count equal to the
\* number of files uploaded and a failed count equal to the number of files
\* whose upload failed; duplicates are counted in neither.
C19_SummaryCounts ==
    batch.pc = "done" =>
      /\ {"uploaded", "failed"} \subseteq DOMAIN batch.summary
      /\ batch.summary.uploaded = Count(batch.outcomes, "uploaded")
      /\ batch.summary.failed = Count(batch.outcomes, "failed")
      /\ batch.summary.uploaded + batch.summary.failed
           + Count(batch.outcomes, "duplicate") = Len(batch.file_paths)

OfType(tx, type) == SelectSeq(tx, LAMBDA m : m.type = type)

SumSeq(values) ==
    LET S[i \in 0..Len(values)] == IF i = 0 THEN 0 ELSE S[i - 1] + values[i]
    IN  S[Len(values)]

\* C20: a run that reaches the summary sends exactly one __RESULTS__ event
\* and after it exactly one __BANK_RESULT__ event per bank group of the
\* harvested attachments; the uploaded and failed totals of __RESULTS__ are
\* the sums of the per-bank values and processed is the number of harvested
\* attachments. Before the summary no such event is sent.
C20_SummaryEvents ==
    LET results == OfType(job.tx, "__RESULTS__")
        banks == OfType(job.tx, "__BANK_RESULT__")
        groups == {job.attachments[i].bank : i \in 1..Len(job.attachments)}
    IN  IF "summary" \in job.finished
        THEN /\ Len(results) = 1
             /\ \A i, k \in 1..Len(job.tx) :
                  (job.tx[i].type = "__RESULTS__" /\ job.tx[k].type = "__BANK_RESULT__")
                    => i < k
             /\ Len(banks) = Cardinality(groups)
             /\ {banks[i].bank : i \in 1..Len(banks)} = groups
             /\ results[1].uploaded = SumSeq([i \in 1..Len(banks) |-> banks[i].uploaded])
             /\ results[1].failed = SumSeq([i \in 1..Len(banks) |-> banks[i].failed])
             /\ results[1].processed = Len(job.attachments)
        ELSE Len(results) = 0 /\ Len(banks) = 0

\* a summary over two bank groups, each with an upload
C20_Witness ==
    /\ "summary" \in job.finished
    /\ Len(OfType(job.tx, "__BANK_RESULT__")) = 2
    /\ \A i \in 1..2 : OfType(job.tx, "__BANK_RESULT__")[i].uploaded = 1
    /\ OfType(job.tx, "__RESULTS__")[1].uploaded = 2

(***************************************************************************)
(* SpecTui: the loop of run_app, the key handlers and the spawned jobs.    *)
(* A message of the channel is a record of what the consumer reads from    *)
(* its text; numbers are written and read in decimal.                      *)
(***************************************************************************)
ProgressLine(text) == [type |-> "line", text |-> text]
Results(processed, uploaded, failed) ==
    [type |-> "__RESULTS__", processed |-> processed, uploaded |-> uploaded,
     failed |-> failed, month |-> "October", folder |-> "Invoices/October"]
BankResult(bank_name, uploaded, failed) ==
    [type |-> "__BANK_RESULT__", bank_name |-> bank_name,
     uploaded |-> uploaded, failed |-> failed]
ProcessingComplete == [type |-> "__PROCESSING_COMPLETE__"]
AuthSuccess(s) == [type |-> "__AUTH_SUCCESS__", service |-> s]
AuthCachedSuccess(s) == [type |-> "__AUTH_CACHED_SUCCESS__", service |-> s]
AuthRefreshSuccess(s) == [type |-> "__AUTH_REFRESH_SUCCESS__", service |-> s]
AuthError(s, error) == [type |-> "__AUTH_ERROR__", service |-> s, error |-> error]
AuthUrl(s) == [type |-> "__AUTH_URL__", service |-> s]

\* what a spawned job sends from its last progress line on: a run that
\* delivers one file, and a run that ends with an error; the completion
\* signal is sent after either
JobScripts(error_text) ==
    {<<ProgressLine("Cleaning up temporary files..."), Results(1, 1, 0),
       BankResult("General", 1, 0), ProcessingComplete>>,
     <<ProgressLine(error_text), ProcessingComplete>>}

\* the log keeps the last 100 lines
add_progress_message(app, message) ==
    LET pushed == Append(app.progress_messages, message)
    IN  [app EXCEPT !.progress_messages =
            IF Len(pushed) > 100 THEN Tail(pushed) ELSE pushed]

set_processing(app, processing) ==
    [app EXCEPT !.is_processing = processing,
                !.progress_messages = IF processing THEN << >> ELSE @]

set_error(app, error) ==
    [app EXCEPT !.error_message = Some(error), !.is_processing = FALSE]

clear_results(app) ==
    [app EXCEPT !.total_processed = 0, !.total_uploaded = 0,
                !.total_failed = 0, !.bank_breakdown = << >>,
                !.billing_month = None, !.drive_folder = None]

reset_manual_inputs(app) ==
    clear_results([app EXCEPT !.start_date_input = << >>,
                              !.end_date_input = << >>])

is_date_input_valid(app) ==
    /\ app.start_date_input # << >>
    /\ app.end_date_input # << >>
    /\ Len(app.start_date_input) = 10
    /\ Len(app.end_date_input) = 10

open_popup(app, popup) ==
    [app EXCEPT !.popup_state = popup, !.error_message = None]

close_popup(app) ==
    [app EXCEPT !.popup_state = "None", !.error_message = None]

is_popup_open(app) == app.popup_state # "None"

\* HashMap::insert
insert(map, key, value) ==
    [k \in DOMAIN map \cup {key} |-> IF k = key THEN value ELSE map[k]]

\* the status of a service: gmail_auth_status or drive_auth_status
auth_status(app, s) ==
    IF s = "gmail" THEN app.gmail_auth_status ELSE app.drive_auth_status

set_auth_status(app, s, status) ==
    IF s = "gmail" THEN [app EXCEPT !.gmail_auth_status = status]
    ELSE [app EXCEPT !.drive_auth_status = status]

\* PopupState::GmailAuthUrl or PopupState::DriveAuthUrl
AuthUrlPopup(s) == IF s = "gmail" THEN "GmailAuthUrl" ELSE "DriveAuthUrl"

\* the line of the log for an event of service s
LogLine(s, gmail_line, drive_line) == IF s = "gmail" THEN gmail_line ELSE drive_line

\* the branches of the drain loop for the events of an authorization
receive_auth(app, message) ==
    LET s == message.service
    IN  CASE message.type = "__AUTH_SUCCESS__" ->
                 LET logged == add_progress_message(
                                 set_auth_status(app, s, "Authenticated"),
                                 LogLine(s, "Gmail authentication successful",
                                         "Google Drive authentication successful"))
                 IN  IF logged.popup_state = AuthUrlPopup(s)
                     THEN close_popup(logged) ELSE logged
          [] message.type = "__AUTH_CACHED_SUCCESS__" ->
                 [add_progress_message(
                    set_auth_status(app, s, "Authenticated"),
                    LogLine(s, "Gmail authentication successful (using cached tokens)",
                            "Google Drive authentication successful (using cached tokens)"))
                  EXCEPT !.auth_popup_success = TRUE]
          [] message.type = "__AUTH_REFRESH_SUCCESS__" ->
                 [add_progress_message(
                    set_auth_status(app, s, "Authenticated"),
                    LogLine(s, "Gmail authentication successful (tokens refreshed)",
                            "Google Drive authentication successful (tokens refreshed)"))
                  EXCEPT !.auth_popup_success = TRUE]
          [] message.type = "__AUTH_ERROR__" ->
                 LET logged == add_progress_message(
                                 set_auth_status(app, s, "Error"),
                                 LogLine(s, "Gmail authentication failed",
                                         "Drive authentication failed"))
                 IN  IF logged.popup_state = AuthUrlPopup(s)
                     THEN close_popup(logged) ELSE logged
          [] message.type = "__AUTH_URL__" ->
                 [app EXCEPT !.auth_url = Some(s)]

AuthEventTypes ==
    {"__AUTH_SUCCESS__", "__AUTH_CACHED_SUCCESS__", "__AUTH_REFRESH_SUCCESS__",
     "__AUTH_ERROR__", "__AUTH_URL__"}

\* the branch of the drain loop for one message
receive(app, message) ==
    CASE message.type = "__PROCESSING_COMPLETE__" -> set_processing(app, FALSE)
      [] message.type \in AuthEventTypes -> receive_auth(app, message)
      [] message.type = "__RESULTS__" ->
             [app EXCEPT !.total_processed = message.processed,
                         !.total_uploaded = message.uploaded,
                         !.total_failed = message.failed,
                         !.billing_month = Some(message.month),
                         !.drive_folder = Some(message.folder)]
      [] message.type = "__BANK_RESULT__" ->
             [app EXCEPT !.bank_breakdown =
                 insert(@, message.bank_name,
                        [uploaded |-> message.uploaded,
                         failed |-> message.failed])]
      [] OTHER -> add_progress_message(app, message.text)

enqueue_front(queue, message) == <<message>> \o queue

\* UnboundedSender::send
enqueue(queue, message) == Append(queue, message)

\* tokio::spawn of a job that will send `script`
spawn(u, kind, script) ==
    [u EXCEPT !.tasks = Append(@, [kind |-> kind, script |-> script,
                                   next |-> 1, cancelled |-> FALSE])]

\* tokio::spawn of the task of start_<service>_auth; `call` is the task of
\* its call of get_<service>_token_with_url, `cleared` tells that the
\* tokens were cleared in the Auth panel after the task was spawned
spawn_auth(u, s) ==
    [u EXCEPT !.tasks =
        Append(@, [kind |-> "auth", script |-> << >>, next |-> 1,
                   cancelled |-> FALSE, service |-> s, cleared |-> FALSE,
                   call |-> 1 + Len(SelectSeq(u.tasks, LAMBDA task : task.kind = "auth"))])]

\* start_gmail_auth and start_drive_auth, configuration loaded
start_auth(u, s) ==
    spawn_auth([u EXCEPT !.app =
                   open_popup([set_auth_status(@, s, "Authenticating")
                               EXCEPT !.auth_popup_success = FALSE],
                              AuthUrlPopup(s))], s)

\* the index of the job spawned last, 0 when there is none
LastJob(tasks) ==
    LET jobs == {t \in DOMAIN tasks : tasks[t].kind # "auth"}
    IN  IF jobs = {} THEN 0 ELSE CHOOSE t \in jobs : \A o \in jobs : o <= t

cancelled_task_aborted(task) ==
    [task EXCEPT !.cancelled = TRUE, !.next = Len(task.script) + 1]

\* the job of a cancelled run: no handle of it is kept, it goes on
cancelled_task(task) == [task EXCEPT !.cancelled = TRUE]

start_scheduled_processing(u, script) ==
    IF u.app.is_processing THEN u
    ELSE spawn([u EXCEPT !.app =
                   add_progress_message(
                     add_progress_message(set_processing(@, TRUE),
                       "Starting scheduled invoice processing..."),
                     "Processing date range")],
               "scheduled", script)

start_manual_processing(u, script) ==
    LET start_date == parse_from_str(u.app.start_date_input)
        end_date == parse_from_str(u.app.end_date_input)
    IN  IF u.app.is_processing THEN u
        ELSE IF ~start_date.some
        THEN [u EXCEPT !.app =
                 set_error(@, "Invalid start date format. Use YYYY-MM-DD")]
        ELSE IF ~end_date.some
        THEN [u EXCEPT !.app =
                 set_error(@, "Invalid end date format. Use YYYY-MM-DD")]
        ELSE IF date_before(end_date.v, start_date.v)
        THEN [u EXCEPT !.app =
                 set_error(@, "Start date cannot be after end date")]
        ELSE spawn([u EXCEPT !.app =
                       add_progress_message(set_processing(@, TRUE),
                         "Starting manual invoice processing...")],
                   "manual", script)

is_date_char(c) == c \in Range(Digits) \cup {"-"}

\* String::pop
pop(str) == IF str = << >> THEN str ELSE SubSeq(str, 1, Len(str) - 1)

\* push onto the focused date field when it is not full
push_date_char(app, c) ==
    IF app.date_input_focus
    THEN IF Len(app.start_date_input) < 10
         THEN [app EXCEPT !.start_date_input = Append(@, c)] ELSE app
    ELSE IF Len(app.end_date_input) < 10
         THEN [app EXCEPT !.end_date_input = Append(@, c)] ELSE app

pop_date_char(app) ==
    IF app.date_input_focus
    THEN [app EXCEPT !.start_date_input = pop(@)]
    ELSE [app EXCEPT !.end_date_input = pop(@)]

handle_manual_input(u, key_code) ==
    IF u.app.is_processing
    THEN IF key_code = "c"
         THEN [u EXCEPT !.app = add_progress_message(set_processing(@, FALSE),
                                   "Processing cancelled by user"),
                        !.tasks = [t \in DOMAIN @ |->
                                     IF t = LastJob(@) THEN cancelled_task(@[t])
                                     ELSE @[t]]]
         ELSE u
    ELSE CASE key_code = "Enter" ->
                  IF is_date_input_valid(u.app)
                  THEN [u EXCEPT !.app = open_popup(@, "ProcessingConfirm")]
                  ELSE [u EXCEPT !.app = open_popup(@, "DateInput")]
           [] key_code = "r" -> [u EXCEPT !.app = reset_manual_inputs(@)]
           [] is_date_char(key_code) ->
                  [u EXCEPT !.app = push_date_char(@, key_code)]
           [] key_code = "Backspace" -> [u EXCEPT !.app = pop_date_char(@)]
           [] OTHER -> u

handle_scheduled_input(u, key_code) ==
    CASE key_code = "Enter" -> [u EXCEPT !.app = open_popup(@, "ScheduleConfig")]
      [] key_code = "s" -> [u EXCEPT !.app = open_popup(@, "ProcessingConfirm")]
      [] OTHER -> u

handle_auth_input(u, key_code) ==
    CASE key_code = "g" -> start_auth(u, "gmail")
      [] key_code = "d" -> start_auth(u, "drive")
      [] key_code \in {"r", "c"} ->
             [u EXCEPT !.app = add_progress_message(
                                 [@ EXCEPT !.gmail_auth_status = "NotAuthenticated",
                                           !.drive_auth_status = "NotAuthenticated"],
                                 "All authentication tokens cleared"),
                        !.tasks = [t \in DOMAIN @ |->
                                     IF @[t].kind = "auth"
                                     THEN [@[t] EXCEPT !.cleared = TRUE]
                                     ELSE @[t]]]
      [] OTHER -> u

\* the services whose clear_<service>_token the handling of a key calls
ClearedByKey(u, key_code) ==
    IF key_code \in {"Tab", "BackTab", "Enter", "Esc"} THEN {}
    ELSE IF ~is_popup_open(u.app)
    THEN IF u.app.focused_panel = "Auth" /\ key_code \in {"r", "c"}
         THEN Services ELSE {}
    ELSE IF u.app.auth_popup_success /\ key_code = "c"
    THEN {s \in Services : u.app.popup_state = AuthUrlPopup(s)}
    ELSE {}

handle_popup_tab_navigation(app) ==
    IF app.popup_state = "DateInput"
    THEN [app EXCEPT !.date_input_focus = ~@]
    ELSE app

handle_popup_input(u, key_code) ==
    IF u.app.popup_state = "DateInput"
    THEN CASE is_date_char(key_code) ->
                  [u EXCEPT !.app = push_date_char(@, key_code)]
           [] key_code = "Backspace" -> [u EXCEPT !.app = pop_date_char(@)]
           [] OTHER -> u
    ELSE IF u.app.popup_state \in {"GmailAuthUrl", "DriveAuthUrl"}
    THEN IF u.app.auth_popup_success
         THEN IF key_code = "c"
              THEN [u EXCEPT !.app =
                      close_popup(
                        IF @.popup_state = "GmailAuthUrl"
                        THEN add_progress_message(
                               [@ EXCEPT !.gmail_auth_status = "NotAuthenticated"],
                               "Gmail tokens cleared")
                        ELSE add_progress_message(
                               [@ EXCEPT !.drive_auth_status = "NotAuthenticated"],
                               "Drive tokens cleared"))]
              ELSE [u EXCEPT !.app = close_popup(@)]
         ELSE u
    ELSE u

handle_popup_confirm(u, script) ==
    CASE u.app.popup_state = "DateInput" ->
             IF Len(u.app.start_date_input) = 10 /\ Len(u.app.end_date_input) = 10
             THEN IF /\ parse_from_str(u.app.start_date_input).some
                     /\ parse_from_str(u.app.end_date_input).some
                  THEN [u EXCEPT !.app = add_progress_message(close_popup(@),
                                   "Date range configured successfully")]
                  ELSE [u EXCEPT !.app =
                           set_error(@, "Invalid date format. Use YYYY-MM-DD")]
             ELSE [u EXCEPT !.app =
                      set_error(@, "Please enter complete dates (YYYY-MM-DD)")]
      [] u.app.popup_state = "ScheduleConfig" ->
             [u EXCEPT !.app = set_error(@, "Please enter a valid day number")]
      [] u.app.popup_state = "ProcessingConfirm" ->
             LET closed == [u EXCEPT !.app = close_popup(@)]
             IN  CASE closed.app.focused_panel = "Manual" ->
                          IF is_date_input_valid(closed.app)
                          THEN start_manual_processing(closed, script)
                          ELSE [closed EXCEPT !.app =
                                  set_error(@, "Please configure valid dates first")]
                   [] closed.app.focused_panel = "Scheduled" ->
                          start_scheduled_processing(closed, script)
                   [] OTHER -> closed
      [] OTHER -> u

\* the match on key.code of run_app
handle_key(u, key_code, script) ==
    CASE key_code = "Tab" ->
             IF is_popup_open(u.app)
             THEN [u EXCEPT !.app = handle_popup_tab_navigation(@)]
             ELSE [u EXCEPT !.app.focused_panel =
                     CASE @ = "Manual" -> "Auth"
                       [] @ = "Auth" -> "Scheduled"
                       [] @ = "Scheduled" -> "Logs"
                       [] @ = "Logs" -> "Manual"]
      [] key_code = "BackTab" ->
             IF ~is_popup_open(u.app)
             THEN [u EXCEPT !.app.focused_panel =
                     CASE @ = "Manual" -> "Logs"
                       [] @ = "Auth" -> "Manual"
                       [] @ = "Scheduled" -> "Auth"
                       [] @ = "Logs" -> "Scheduled"]
             ELSE u
      [] key_code = "Enter" ->
             IF ~is_popup_open(u.app)
             THEN CASE u.app.focused_panel = "Manual" ->
                           [u EXCEPT !.app = open_popup(@, "DateInput")]
                    [] u.app.focused_panel = "Auth" ->
                           IF u.app.gmail_auth_status = "NotAuthenticated"
                           THEN start_auth(u, "gmail")
                           ELSE IF u.app.drive_auth_status = "NotAuthenticated"
                           THEN start_auth(u, "drive")
                           ELSE start_auth(u, "gmail")
                    [] u.app.focused_panel = "Scheduled" ->
                           [u EXCEPT !.app = open_popup(@, "ScheduleConfig")]
                    [] OTHER -> u
             ELSE handle_popup_confirm(u, script)
      [] key_code = "Esc" -> [u EXCEPT !.app = close_popup(@)]
      [] OTHER ->
             IF is_popup_open(u.app) THEN handle_popup_input(u, key_code)
             ELSE CASE u.app.focused_panel = "Manual" ->
                           handle_manual_input(u, key_code)
                    [] u.app.focused_panel = "Auth" ->
                           handle_auth_input(u, key_code)
                    [] u.app.focused_panel = "Scheduled" ->
                           handle_scheduled_input(u, key_code)
                    [] OTHER -> u

\* the keys that leave the loop, and the keys of the Auth panel that start
\* or clear an authorization
LeavesDashboard(u, key_code) ==
    \/ key_code = "Esc" /\ ~is_popup_open(u.app)
    \/ /\ u.app.focused_panel = "Auth"
       /\ ~is_popup_open(u.app)
       /\ key_code \notin {"Tab", "BackTab"}

\* App::validate_existing_tokens on the cache files f at time t
validate_existing_tokens(app, f, t) ==
    LET validate(a, s) ==
            IF f[s].kind = "absent" THEN a
            ELSE IF f[s].kind = "garbage"
            THEN add_progress_message(a,
                   LogLine(s, "Warning: Could not load Gmail token",
                           "Warning: Could not load Drive token"))
            ELSE IF ~is_expired(f[s], t)
            THEN add_progress_message(set_auth_status(a, s, "Authenticated"),
                   LogLine(s, "Gmail authentication restored from cached tokens",
                           "Google Drive authentication restored from cached tokens"))
            ELSE a
    IN  validate(validate(app, "gmail"), "drive")

\* run_app up to the first pass of its loop
RunTui ==
    /\ tui.pc = "idle"
    /\ tui' = [tui EXCEPT !.pc = "drain",
                          !.app = validate_existing_tokens(@, file, now)]
    /\ UNCHANGED <<authVars, job, callVars, deliver, calc>>

\* one turn of `while let Ok(message) = rx.try_recv()`
DrainOne ==
    /\ tui.pc = "drain"
    /\ tui.rx # << >>
    /\ tui' = [tui EXCEPT !.app = receive(@, Head(tui.rx).message),
                          !.rx = Tail(@),
                          !.received = @ + 1]
    /\ UNCHANGED <<authVars, job, callVars, deliver, calc>>

\* try_recv finds the channel empty
DrainEnd ==
    /\ tui.pc = "drain"
    /\ tui.rx = << >>
    /\ tui' = [tui EXCEPT !.pc = "poll"]
    /\ UNCHANGED <<authVars, job, callVars, deliver, calc>>

\* event::poll returns a key press, which is handled; the next pass
\* begins.  At most max_jobs jobs are spawned.
Pressed(key_code, max_jobs) ==
    /\ tui.pc = "poll"
    /\ ~LeavesDashboard(tui, key_code)
    /\ \E script \in JobScripts("Scheduled processing error") :
         LET u == handle_key(tui, key_code, script)
         IN  /\ Len(u.tasks) <= max_jobs
             /\ Len(u.app.progress_messages) <= MaxLog
             /\ tui' = [u EXCEPT !.pc = "drain"]
    /\ UNCHANGED <<authVars, job, callVars, deliver, calc>>

KeyPress(key_code) == Pressed(key_code, NumJobs)

\* event::poll times out
NoKey ==
    /\ tui.pc = "poll"
    /\ tui' = [tui EXCEPT !.pc = "drain"]
    /\ UNCHANGED <<authVars, job, callVars, deliver, calc>>

\* a spawned job sends its next message; `late` tells that its run had
\* been cancelled by then
TaskStep(t) ==
    /\ t \in DOMAIN tui.tasks
    /\ tui.tasks[t].next <= Len(tui.tasks[t].script)
    /\ tui' = [tui EXCEPT
                 !.rx = enqueue(@, [message |-> tui.tasks[t].script[tui.tasks[t].next],
                                    task |-> t, n |-> tui.sent + 1,
                                    late |-> tui.tasks[t].cancelled]),
                 !.sent = @ + 1,
                 !.tasks[t].next = @ + 1]
    /\ UNCHANGED <<authVars, job, callVars, deliver, calc>>

DashboardKeys == {"Tab", "Enter", "Esc", "c", "s"}

NextTui ==
    \/ RunTui
    \/ DrainOne
    \/ DrainEnd
    \/ \E key_code \in DashboardKeys : KeyPress(key_code)
    \/ NoKey
    \/ \E t \in 1..NumJobs : TaskStep(t)

SpecTui == InitFolder /\ [][NextTui]_vars

(***************************************************************************)
(* SpecAuthUi: the dashboard with the keys of the Auth panel.  The task of *)
(* start_<service>_auth calls get_<service>_token_with_url, which follows  *)
(* get_<service>_token and sends its events on the channel of run_app.     *)
(***************************************************************************)
\* the cache files an earlier run can have left: a token that does not
\* expire, and an expired token with a refresh token
LeftTokens == {TokenCache(1, None, None), TokenCache(1, Some(1), Some(0))}

EarlierRun(s) ==
    /\ tui.pc = "idle"
    /\ file[s] = Absent
    /\ \E token_cache \in LeftTokens : file' = save_token(file, s, token_cache)
    /\ UNCHANGED <<now, listeners, cleared, pc, svc, refresh, result, hist,
                   unitVars, job>>

AuthEvents_unreported(s, res) ==
    IF res.status = "ok"
    THEN (CASE res.path = "cached" -> <<AuthCachedSuccess(s)>>
            [] res.path = "refreshed" -> <<AuthRefreshSuccess(s), AuthSuccess(s)>>
            [] OTHER -> <<AuthSuccess(s)>>)
    ELSE <<AuthError(s, res.err)>>

\* what get_<service>_token_with_url and the task of start_<service>_auth
\* send once the call has returned res
AuthEvents(s, res) ==
    IF res.status = "ok"
    THEN (CASE res.path = "cached" -> <<AuthCachedSuccess(s)>>
            [] res.path = "refreshed" -> <<AuthRefreshSuccess(s)>>
            [] OTHER -> IF s = "drive" THEN <<AuthUrl(s)>> ELSE << >>)
         \o <<AuthSuccess(s)>>
    ELSE <<AuthError(s, res.err)>>

\* event::poll returns a key press while authorizations can be started
AuthKeyPress(key_code) ==
    /\ tui.pc = "poll"
    /\ ~(key_code = "Esc" /\ ~is_popup_open(tui.app))
    /\ \E script \in JobScripts("Scheduled processing error") :
         LET u == handle_key(tui, key_code, script)
         IN  /\ Len(SelectSeq(u.tasks, LAMBDA task : task.kind # "auth")) <= NumJobs
             /\ Len(SelectSeq(u.tasks, LAMBDA task : task.kind = "auth")) <= NumAuths
             /\ Len(u.app.progress_messages) <= MaxLog
             /\ tui' = [u EXCEPT !.pc = "drain"]
    /\ file' = [s \in Services |->
                  IF s \in ClearedByKey(tui, key_code)
                  THEN clear_token(file, s)[s] ELSE file[s]]
    /\ cleared' = [s \in Services |->
                     cleared[s] \/ s \in ClearedByKey(tui, key_code)]
    /\ UNCHANGED <<now, listeners, pc, svc, refresh, result, hist, job,
                   callVars, deliver, calc>>

\* the task of an authorization is polled for the first time
AuthCall(k) ==
    /\ k \in DOMAIN tui.tasks
    /\ tui.tasks[k].kind = "auth"
    /\ SpawnGetToken(tui.tasks[k].call, tui.tasks[k].service)

\* the task of an authorization sends its next event
AuthStep(k) ==
    /\ k \in DOMAIN tui.tasks
    /\ tui.tasks[k].kind = "auth"
    /\ pc[tui.tasks[k].call] = "done"
    /\ LET events == AuthEvents(tui.tasks[k].service, result[tui.tasks[k].call])
       IN  /\ tui.tasks[k].next <= Len(events)
           /\ tui' = [tui EXCEPT
                        !.rx = enqueue(@, [message |-> events[tui.tasks[k].next],
                                           task |-> k, n |-> tui.sent + 1,
                                           late |-> FALSE]),
                        !.sent = @ + 1,
                        !.tasks[k].next = @ + 1]
    /\ UNCHANGED <<authVars, job, callVars, deliver, calc>>

\* the provider answers with a token that does not expire; the browser
\* sends the redirect of the attempt, or a line without a request target
PlainAnswer == [access_token |-> 1, refresh_token |-> None, expires_in |-> None]
PlainRequests ==
    {NoRequest} \cup {[target |-> TRUE, code |-> Some(1), state |-> Some(t)] : t \in Tasks}

AnsweredPlainly(t) ==
    /\ hist'[t].answer \in {NoAnswer, PlainAnswer}
    /\ hist'[t].req \in PlainRequests

AuthKeys == {"Tab", "Esc", "g", "d", "c"}

NextAuthUi ==
    \/ \E s \in Services : EarlierRun(s)
    \/ RunTui
    \/ DrainOne
    \/ DrainEnd
    \/ \E key_code \in AuthKeys : AuthKeyPress(key_code)
    \/ NoKey
    \/ \E k \in 1..(NumJobs + NumAuths) : AuthCall(k)
    \/ \E t \in 1..NumAuths : RefreshResponse(t) /\ AnsweredPlainly(t)
    \/ \E t \in 1..NumAuths : AcceptRedirect(t) /\ AnsweredPlainly(t)
    \/ \E t \in 1..NumAuths : ExchangeResponse(t) /\ AnsweredPlainly(t)
    \/ \E k \in 1..(NumJobs + NumAuths) : AuthStep(k)

SpecAuthUi == InitFolder /\ [][NextAuthUi]_vars

(***************************************************************************)
(* SpecTasks: the dashboard with the keys that start a scheduled run and   *)
(* an authorization; the tasks of both kinds send on the same channel.     *)
(***************************************************************************)
TaskKeys == {"Tab", "Enter", "s"}

NextTasks ==
    \/ \E s \in Services : EarlierRun(s)
    \/ RunTui
    \/ DrainOne
    \/ DrainEnd
    \/ \E key_code \in TaskKeys : AuthKeyPress(key_code)
    \/ NoKey
    \/ \E k \in 1..(NumJobs + NumAuths) : AuthCall(k)
    \/ \E t \in 1..NumAuths : RefreshResponse(t) /\ AnsweredPlainly(t)
    \/ \E t \in 1..NumAuths : AcceptRedirect(t) /\ AnsweredPlainly(t)
    \/ \E t \in 1..NumAuths : ExchangeResponse(t) /\ AnsweredPlainly(t)
    \/ \E k \in 1..(NumJobs + NumAuths) : AuthStep(k)
    \/ \E k \in 1..(NumJobs + NumAuths) : TaskStep(k)

SpecTasks == InitFolder /\ [][NextTasks]_vars

\* the keys that start a run and cancel it
CancelKeys == {"Tab", "Enter", "c", "s"}

NextCancel ==
    \/ RunTui
    \/ DrainOne
    \/ DrainEnd
    \/ \E key_code \in CancelKeys : KeyPress(key_code)
    \/ NoKey
    \/ \E t \in 1..NumJobs : TaskStep(t)

\* SpecCancel: the runtime goes on polling every spawned task, and every
\* request of a job ends with an answer or an error, so a job that can
\* send its next message does send it
SpecCancel ==
    /\ InitFolder
    /\ [][NextCancel]_vars
    /\ \A t \in 1..NumJobs : WF_vars(TaskStep(t))

(***************************************************************************)
(* SpecRuns: the dashboard of a user who starts a run after another.       *)
(***************************************************************************)
NextRuns ==
    \/ RunTui
    \/ DrainOne
    \/ DrainEnd
    \/ \E key_code \in CancelKeys : Pressed(key_code, NumJobs + 1)
    \/ NoKey
    \/ \E t \in 1..(NumJobs + 1) : TaskStep(t)

SpecRuns == InitFolder /\ [][NextRuns]_vars

\* SpecKeys: the dashboard with the keys that type the two dates; no job
\* is spawned by these keys, so the channel stays empty
TypedStart == <<"2", "0", "2", "4", "-", "0", "9", "-", "0", "1">>
TypedEnd == <<"2", "0", "2", "4", "-", "1", "0", "-", "1", "2">>

TypingKeys ==
    {"Tab", "BackTab", "Enter", "Esc", "Backspace", "r", "-"} \cup Range(Digits)

\* a key press of a user who types the start date into the first field and
\* the end date into the second
TypedKey(key_code) ==
    /\ KeyPress(key_code)
    /\ IsPrefix(tui'.app.start_date_input, TypedStart)
    /\ IsPrefix(tui'.app.end_date_input, TypedEnd)

NextKeys ==
    \/ RunTui
    \/ DrainEnd
    \/ \E key_code \in TypingKeys : TypedKey(key_code)
    \/ NoKey

SpecKeys == InitFolder /\ [][NextKeys]_vars

\* start_manual_processing on a new dashboard with the two date fields
\* filled in
StartManualEvaluate ==
    /\ calc.f = "none"
    /\ \E start_text, end_text \in DateTexts :
       \E script \in JobScripts("Error") :
         calc' = [f |-> "start_manual_processing",
                  in |-> <<start_text, end_text>>,
                  out |-> start_manual_processing(
                            [NoTui EXCEPT !.app.start_date_input = start_text,
                                          !.app.end_date_input = end_text],
                            script)]
    /\ UNCHANGED <<authVars, job, callVars, deliver, tui>>

NextRange ==
    \/ ParseRangeEvaluate
    \/ PreviousMonthEvaluate
    \/ StartManualEvaluate
    \/ CalcForget

SpecRange == InitFolder /\ [][NextRange]_vars

(***************************************************************************)
(* Properties of the delivery, the dates and the dashboard.                *)
(***************************************************************************)
\* C21: every harvested attachment is in exactly one group, the one keyed
\* by its detected bank; every file of an attachment with bank B is uploaded
\* into the folder resolved from <base>/<period>/<B>, every file of an
\* attachment without bank into the folder of <base>/<period>, and the group
\* without bank is announced as "General".
C21_GroupsAndFolders ==
    LET atts == deliver.attachments
        groups == deliver.bank_groups
        begun == DOMAIN groups \ deliver.groups
    IN  DOMAIN groups # {} =>
          /\ \A i \in 1..Len(atts) :
               {g \in DOMAIN groups : i \in Range(groups[g])} = {atts[i].bank}
          /\ \A k \in 1..Len(deliver.uploads) :
               LET u == deliver.uploads[k]
               IN  /\ u.name = atts[u.att].filename
                   /\ u.folder = IF atts[u.att].bank.some
                                 THEN <<"base", "period", atts[u.att].bank.v>>
                                 ELSE <<"base", "period">>
          /\ LET announced == OfType(deliver.tx, "Processing bank")
             IN  /\ Len(announced) = Cardinality(begun)
                 /\ {announced[k].key : k \in 1..Len(announced)} = begun
                 /\ \A k \in 1..Len(announced) :
                      IF announced[k].key.some
                      THEN announced[k].name = announced[k].key.v
                      ELSE announced[k].name = "General"

\* a harvest of one attachment with a bank and one without, both uploaded
C21_Witness ==
    /\ deliver.pc = "done"
    /\ deliver.status = "ok"
    /\ Len(deliver.uploads) = 2
    /\ \A k \in 1..2 : deliver.uploads[k].outcome = "uploaded"
    /\ {deliver.uploads[k].folder : k \in 1..2}
         = {<<"base", "period">>, <<"base", "period", 1>>}

C23_NoTempFileAtSummary ==
    Len(OfType(deliver.tx, "__RESULTS__")) > 0 =>
      deliver.tmp \cap deliver.written = {}

\* C30: get_previous_month_range returns the first and the last day of the
\* calendar month before the current one; from January it is December of
\* the year before; the first element is strictly before the second.
C30_PreviousMonthRange ==
    calc.f = "get_previous_month_range" =>
      LET today == calc.in
          start_date == calc.out[1]
          end_date == calc.out[2]
          year == IF today.month = 1 THEN today.year - 1 ELSE today.year
          month == IF today.month = 1 THEN 12 ELSE today.month - 1
      IN  /\ start_date = [year |-> year, month |-> month, day |-> 1]
          /\ end_date = [year |-> year, month |-> month,
                         day |-> days_in_month(year, month)]
          /\ date_before(start_date, end_date)

\* a day of January gives December of the year before
C30_Witness ==
    /\ calc.f = "get_previous_month_range"
    /\ calc.in = [year |-> 2024, month |-> 1, day |-> 15]
    /\ calc.out = <<[year |-> 2023, month |-> 12, day |-> 1],
                    [year |-> 2023, month |-> 12, day |-> 31]>>

\* the calendar date a date string of the model stands for
NamedDate(text) ==
    CASE text = <<"2", "0", "2", "4", "-", "0", "9", "-", "0", "1">> ->
             Some([year |-> 2024, month |-> 9, day |-> 1])
      [] text = <<"2", "0", "2", "4", "-", "1", "0", "-", "1", "2">> ->
             Some([year |-> 2024, month |-> 10, day |-> 12])
      [] text = <<"2", "0", "2", "4", "-", "9", "-", "1">> ->
             Some([year |-> 2024, month |-> 9, day |-> 1])
      [] OTHER -> None

\* the range string is start:end of two calendar dates with end not
\* before start
WellFormedRange(range_str, a, b) ==
    /\ range_str = a \o <<":">> \o b
    /\ NamedDate(a).some
    /\ NamedDate(b).some
    /\ ~date_before(NamedDate(b).v, NamedDate(a).v)

RangeParsed ==
    calc.f = "parse_date_range" =>
      IF \E a, b \in DateTexts : WellFormedRange(calc.in, a, b)
      THEN /\ calc.out.ok
           /\ \A a, b \in DateTexts :
                WellFormedRange(calc.in, a, b) =>
                  /\ calc.out.start_date = NamedDate(a).v
                  /\ calc.out.end_date = NamedDate(b).v
      ELSE ~calc.out.ok

ManualStarted ==
    calc.f = "start_manual_processing" =>
      IF WellFormedRange(calc.in[1] \o <<":">> \o calc.in[2],
                         calc.in[1], calc.in[2])
      THEN /\ Len(calc.out.tasks) = 1
           /\ calc.out.tasks[1].kind = "manual"
           /\ calc.out.app.is_processing
           /\ ~calc.out.app.error_message.some
      ELSE /\ calc.out.tasks = << >>
           /\ ~calc.out.app.is_processing
           /\ calc.out.app.error_message.some

\* C28: a range string that is not start:end of two calendar dates, or
\* whose end is before its start, is an error of parse_date_range, and
\* with such a pair of dates start_manual_processing sets an error and
\* spawns no task; any other range is accepted, parse_date_range returns
\* its two dates as written and start_manual_processing spawns the job.
C28_BadRangeStartsNoJob == RangeParsed /\ ManualStarted

\* an end before the start: start_manual_processing sets the error and
\* spawns nothing
C28_Witness ==
    /\ calc.f = "start_manual_processing"
    /\ calc.in = <<<<"2", "0", "2", "4", "-", "1", "0", "-", "1", "2">>,
                    <<"2", "0", "2", "4", "-", "0", "9", "-", "0", "1">>>>
    /\ calc.out.tasks = << >>
    /\ calc.out.app.error_message = Some("Start date cannot be after end date")

\* the step is the work of a key handler: it moves the focus, opens or
\* closes a popup, sets or clears the error, spawns or cancels a job
KeyHandled ==
    \/ tui'.app.focused_panel # tui.app.focused_panel
    \/ tui'.app.popup_state # tui.app.popup_state
    \/ tui'.app.date_input_focus # tui.app.date_input_focus
    \/ tui'.app.error_message # tui.app.error_message
    \/ Len(tui'.tasks) # Len(tui.tasks)
    \/ \E t \in DOMAIN tui.tasks : tui'.tasks[t].cancelled # tui.tasks[t].cancelled

\* the step consumes the first message of the channel
TakesFirst ==
    /\ tui'.received = tui.received + 1
    /\ tui.rx # << >>
    /\ tui'.rx = Tail(tui.rx)
    /\ tui'.app = receive(tui.app, Head(tui.rx).message)

PassThenKey ==
    /\ (tui'.received # tui.received) => TakesFirst
    /\ (tui.pc = "drain" /\ tui'.pc = "poll") => (tui.received = tui.sent)
    /\ KeyHandled => (tui.pc = "poll" /\ tui'.pc = "drain")

\* C24: the messages of the channel are consumed in the order they were
\* sent, each at most once (the channel always holds, in order, exactly
\* the messages sent and not yet consumed, and a consuming step takes the
\* first of them); a pass of the drain loop ends only when every message
\* sent so far has been consumed, and a key is handled only after a pass
\* has ended.
C24_ConsumedInSendOrder ==
    /\ [](/\ tui.sent = tui.received + Len(tui.rx)
          /\ \A i \in 1..Len(tui.rx) : tui.rx[i].n = tui.received + i)
    /\ [][PassThenKey]_vars

\* a whole run has been consumed and the loop waits for a key
C24_Witness ==
    /\ tui.pc = "poll"
    /\ tui.received = 4
    /\ tui.app.bank_breakdown # << >>

\* the job t was cancelled, and has sent its whole script
Cancelled(t) == t \in DOMAIN tui.tasks /\ tui.tasks[t].cancelled
Finished(t) ==
    /\ t \in DOMAIN tui.tasks
    /\ tui.tasks[t].next = Len(tui.tasks[t].script) + 1

\* a step leaves the job t alone or is the send of its next message
AloneOrSends(t) ==
    t \in DOMAIN tui.tasks =>
      /\ tui'.tasks[t].script = tui.tasks[t].script
      /\ \/ tui'.tasks[t].next = tui.tasks[t].next
         \/ /\ tui'.tasks[t].next = tui.tasks[t].next + 1
            /\ tui'.rx # << >>
            /\ tui'.rx[Len(tui'.rx)].task = t
            /\ tui'.rx[Len(tui'.rx)].message =
                   tui.tasks[t].script[tui.tasks[t].next]

\* C25: cancelling does not interrupt the job: no step, the cancel key
\* included, takes anything from what the job will send, the job goes on
\* sending its messages in order, and a cancelled job gets to the end of
\* them, the last being __PROCESSING_COMPLETE__.
C25_CancelledJobRunsOn ==
    /\ [][\A t \in 1..NumJobs : AloneOrSends(t)]_vars
    /\ \A t \in 1..NumJobs :
         Cancelled(t) ~>
           (Finished(t) /\ tui.tasks[t].script[Len(tui.tasks[t].script)]
                              = ProcessingComplete)

\* the completion signal of a cancelled job, sent after the cancel, is in
\* the channel
C25_Witness ==
    \E i \in 1..Len(tui.rx) :
        /\ tui.rx[i].late
        /\ tui.rx[i].message = ProcessingComplete

\* the step consumes a progress line, a __RESULTS__ or a __BANK_RESULT__
\* message that a job sent after its run was cancelled
TakesLateEvent ==
    /\ tui'.received # tui.received
    /\ Head(tui.rx).late
    /\ Head(tui.rx).message.type \in {"line", "__RESULTS__", "__BANK_RESULT__"}

ResultsUntouched ==
    /\ tui'.app.progress_messages = tui.app.progress_messages
    /\ tui'.app.total_processed = tui.app.total_processed
    /\ tui'.app.total_uploaded = tui.app.total_uploaded
    /\ tui'.app.total_failed = tui.app.total_failed
    /\ tui'.app.bank_breakdown = tui.app.bank_breakdown

\* C26: consuming a message that a cancelled job sent after the
\* cancellation changes neither the log, nor the totals, nor the bank
\* breakdown.
C26_LateEventsIgnored == [][TakesLateEvent => ResultsUntouched]_vars

\* the Manual panel has the focus, no popup is open, no job is running and
\* both date fields hold a calendar date of ten characters
ReadyForManual ==
    /\ tui.pc = "poll"
    /\ tui.app.focused_panel = "Manual"
    /\ ~is_popup_open(tui.app)
    /\ ~tui.app.is_processing
    /\ is_date_input_valid(tui.app)
    /\ parse_from_str(tui.app.start_date_input).some
    /\ parse_from_str(tui.app.end_date_input).some

\* the step is the handling of the Enter key
PressedEnter ==
    /\ tui.pc = "poll"
    /\ \E script \in JobScripts("Error") :
         tui' = [handle_key(tui, "Enter", script) EXCEPT !.pc = "drain"]

\* C29: on the Manual panel with two valid dates and no job running,
\* Enter opens the confirmation popup (whose confirmation starts the
\* manual job).
C29_EnterOpensConfirmation ==
    [][(ReadyForManual /\ PressedEnter) =>
          tui'.app.popup_state = "ProcessingConfirm"]_vars

\* no manual job is ever spawned
NoManualJob == \A t \in DOMAIN tui.tasks : tui.tasks[t].kind # "manual"

\* C27: no interleaving of two background tasks changes what either of
\* them reads or produces: a task is never refused the port because
\* another task holds it, and never reads from the token cache what
\* another task wrote (the cache holds no token before the first task).
C27_TasksIndependent ==
    \A t \in Tasks :
        Started(t) =>
          /\ hist[t].blockedBy = NoTask
          /\ hist[t].loaded.kind # "token"
(***************************************************************************)
(* Properties of the tasks of the dashboard and their events.              *)
(***************************************************************************)
\* the messages task k sends in its life, as far as they are known
TaskEvents(k) ==
    LET task == tui.tasks[k]
    IN  IF task.kind = "auth"
        THEN IF pc[task.call] = "done"
             THEN AuthEvents(task.service, result[task.call]) ELSE << >>
        ELSE task.script

Terminated(k) ==
    /\ tui.tasks[k].kind = "auth" => pc[tui.tasks[k].call] = "done"
    /\ tui.tasks[k].next > Len(TaskEvents(k))

\* the terminal events of task k: the completion signal of a job, the
\* success and error events of the service of an authorization
IsTerminal(k, message) ==
    IF tui.tasks[k].kind = "auth"
    THEN /\ message.type \in {"__AUTH_SUCCESS__", "__AUTH_ERROR__"}
         /\ message.service = tui.tasks[k].service
    ELSE message = ProcessingComplete

\* the positions of the terminal events among the messages sent by task k
TerminalsSent(k) ==
    {i \in 1..(tui.tasks[k].next - 1) : IsTerminal(k, TaskEvents(k)[i])}

ErrorLines == {ProgressLine("Scheduled processing error"), ProgressLine("Error")}

OneTerminalEventLast ==
    \A k \in DOMAIN tui.tasks :
        /\ TerminalsSent(k) \subseteq {Len(TaskEvents(k))}
        /\ Terminated(k) =>
             /\ TerminalsSent(k) = {Len(TaskEvents(k))}
             /\ (\E i \in 1..Len(TaskEvents(k)) : TaskEvents(k)[i] \in ErrorLines)
                  => TaskEvents(k)[Len(TaskEvents(k)) - 1] \in ErrorLines

TerminalConsumed ==
    (tui.pc = "drain" /\ tui.rx # << >> /\ tui'.received = tui.received + 1) =>
        LET message == Head(tui.rx).message
        IN  /\ message = ProcessingComplete => ~tui'.app.is_processing
            /\ message.type \in {"__AUTH_SUCCESS__", "__AUTH_ERROR__"} =>
                 auth_status(tui'.app, message.service) \in {"Authenticated", "Error"}

\* C31: every spawned task that terminates has sent exactly one terminal
\* event, as its last message: the completion signal for a job, after the
\* error line when the job failed, and one of the success and error events
\* of its service for an authorization; a task that has not terminated has
\* sent none.  The pass that consumes the terminal event leaves
\* is_processing false for a job, and the status of the service
\* Authenticated or Error for an authorization.
C31_OneTerminalEvent ==
    /\ [](OneTerminalEventLast)
    /\ [][TerminalConsumed]_vars

\* a failed job and an authorization from the cached token have terminated
\* and all their events are consumed
C31_Witness ==
    /\ tui.received = tui.sent
    /\ \E k \in DOMAIN tui.tasks :
         /\ tui.tasks[k].kind = "auth"
         /\ Terminated(k)
         /\ Len(TaskEvents(k)) = 2
    /\ \E k \in DOMAIN tui.tasks :
         /\ tui.tasks[k].kind # "auth"
         /\ Terminated(k)
         /\ TaskEvents(k)[1] \in ErrorLines
    /\ ~tui.app.is_processing
    /\ tui.app.gmail_auth_status = "Authenticated"

\* the drain loop takes the next message of the channel
Consumes ==
    /\ tui.pc = "drain"
    /\ tui.rx # << >>
    /\ tui'.received = tui.received + 1

PopupKept ==
    Consumes =>
        LET task == tui.tasks[Head(tui.rx).task]
        IN  (/\ task.kind = "auth"
             /\ result[task.call].path \in {"cached", "refreshed"}
             /\ tui.app.popup_state = AuthUrlPopup(task.service))
            => tui'.app.popup_state = tui.app.popup_state

\* C32: when an authorization started in the dashboard has succeeded from
\* the cached or the refreshed token, no event of that attempt closes the
\* popup of the service: consuming an event of the attempt while the popup
\* is open leaves it open.
C32_PopupStaysOpen == [][PopupKept]_vars

UrlSentWhileWaiting ==
    \A k \in DOMAIN tui.tasks :
        (/\ tui.tasks[k].kind = "auth"
         /\ k \in DOMAIN tui'.tasks
         /\ tui'.tasks[k].next = tui.tasks[k].next + 1
         /\ TaskEvents(k)[tui.tasks[k].next].type = "__AUTH_URL__")
        => pc[tui.tasks[k].call] = "accepting"

\* C33: on the full authorization path the event with the URL is sent
\* while the attempt waits for the redirect: the call is at its accept,
\* the redirect is not yet accepted, when the event is sent.
C33_UrlBeforeRedirect == [][UrlSentWhileWaiting]_vars

AuthTasks == {k \in DOMAIN tui.tasks : tui.tasks[k].kind = "auth"}

\* C39: once all tokens were cleared in the Auth panel and as long as no
\* authorization was started after that, the cache files are absent and
\* both statuses are NotAuthenticated: an attempt spawned before the
\* clearing neither writes a cache file nor makes the status Authenticated.
C39_ClearedStaysCleared ==
    (AuthTasks # {} /\ \A k \in AuthTasks : tui.tasks[k].cleared) =>
        \A s \in Services :
            /\ file[s] = Absent
            /\ auth_status(tui.app, s) = "NotAuthenticated"

\* the job has not sent its completion signal yet
Running(k) ==
    /\ tui.tasks[k].kind # "auth"
    /\ tui.tasks[k].next <= Len(tui.tasks[k].script)

\* C34: at most one job task is in flight at a time.
C34_OneJobInFlight ==
    Cardinality({k \in DOMAIN tui.tasks : Running(k)}) <= 1

\* C35: is_processing is true while the job started last is running and
\* was not cancelled.
C35_ProcessingWhileRunning ==
    LET last == LastJob(tui.tasks)
    IN  (last # 0 /\ Running(last) /\ ~tui.tasks[last].cancelled)
            => tui.app.is_processing

\* the results the dashboard shows
Shown(app) ==
    [total_processed |-> app.total_processed, total_uploaded |-> app.total_uploaded,
     total_failed |-> app.total_failed, bank_breakdown |-> app.bank_breakdown,
     billing_month |-> app.billing_month, drive_folder |-> app.drive_folder]

\* the results a new dashboard shows after the messages of script
RECURSIVE Received(_, _)
Received(app, script) ==
    IF script = << >> THEN app
    ELSE Received(receive(app, Head(script)), Tail(script))

SummaryOfLastJob ==
    (Consumes /\ Head(tui.rx).message = ProcessingComplete) =>
        Shown(tui'.app) =
            Shown(Received(NewApp, tui.tasks[Head(tui.rx).task].script))

\* C37: when the completion signal of a job is consumed, the totals, the
\* billing month, the folder and the bank breakdown of the dashboard are
\* those of the events of that job, and empty when it sent none.
C37_ResultsOfThatJob == [][SummaryOfLastJob]_vars

(***************************************************************************)
(* Properties of the temp copies.                                          *)
(***************************************************************************)
\* C36: no content of a harvested attachment is lost silently: for every
\* attachment whose upload was attempted, the file was uploaded with the
\* bytes of that attachment, or skipped because a file of that name was in
\* the destination before the run, or reported as failed; this includes
\* two attachments of the run with the same file name.
C36_NoContentLost ==
    \A k \in 1..Len(deliver.uploads) :
        LET u == deliver.uploads[k]
        IN  \/ u.outcome = "uploaded" /\ u.sent = u.att
            \/ u.outcome = "duplicate" /\ u.name \in deliver.before
            \/ u.outcome = "failed"

\* C40: when the run has ended with an error, no temp copy it has written
\* is left in the temp directory.
C40_AbortRemovesCopies ==
    (deliver.pc = "done" /\ deliver.status = "err") =>
        deliver.tmp \cap deliver.written = {}

(***************************************************************************)
(* Properties of concurrent folder resolution.                             *)
(***************************************************************************)
\* C38: the account never holds two folders with the same name under the
\* same parent, whatever the interleaving of the calls of
\* find_or_create_folder.
C38_NoTwinFolders ==
    \A f, g \in drive.folders :
        (f.name = g.name /\ f.parent = g.parent) => f = g

====
